---- MODULE Spec2Model ----
(***************************************************************************)
(* Health monitors of SMS_MAXIS_SCRIPT: the persisted OK/FAIL alert state  *)
(* machine repeated in every monitor script, the per-entity monitors, the  *)
(* windowed log-pattern aggregators and the offset-checkpointed scanners.  *)
(***************************************************************************)
EXTENDS Integers, Sequences, FiniteSets, TLC

VARIABLES
    mon,        \* which monitor script this behaviour runs
    now,        \* int(time.time()) of the latest poll
    npolls,     \* number of polls run so far
    sink,       \* alerts handed to send_alert, in order
    last,       \* per entity fed to the alert logic in the latest poll: inputs and outcome
    cooldown,   \* cooldown_seconds of the single-entity monitor
    sfile,      \* state file of the single-entity monitor
    hist,       \* (signal, now) of every poll of the single-entity monitor
    perCool,    \* per entity cooldown of the configuration (processes / directories)
    defCool,    \* jar_monitor.cooldown_seconds
    mfile,      \* state file of a per-entity monitor: entity -> record
    aggCfg,     \* per pattern label: check_interval_seconds, cooldown_seconds
    counts,     \* state["counts"]: offsets per (file, label), window / count records
    alerts,     \* state["alerts"]: key -> time of the alert
    status,     \* state["status"]: key -> OK / FAIL
    offs,       \* state["counts"][file::label::offset]: the byte offsets
    content,    \* per trace file: its bytes, each tagged with the pattern label it matches
    scanlog,    \* per label: (time, matches) of every scan result merged so far
    logdata,    \* the scanned log file: its characters
    cursor,     \* the byte offset stored for the log file
    scanCfg,    \* which scanner reads the log, with which patterns
    total,      \* matches counted by all scans so far
    lastScan,   \* the latest scan: stored offset, file as read, count, returned offset,
                \* whether the file was rotated before it, or has been since
    appendOnly, \* the log file was only appended to so far
    pool,       \* the worker pool of a run of the parallel aggregator
    disk,       \* the state file as it is on disk: whether it exists, its text
    loaded,     \* the latest call of load_state: the file it found, what it returned
    saving,     \* the latest call of save_state: the record before, the record written
    proc,       \* the monitor process: alive, how its latest save ended
    outbox,     \* the mails send_alert dealt with: delivered or not, the state on file then
    mailer,     \* the sender of one mail: attempts made, delays slept, how it ended
    probe,      \* the traffic / uptime probe of the latest cycle and what it returned
    call,       \* the external call a cycle is waiting for, if any
    cpu,        \* monitor_cpu's memory: high_cpu_start, and the samples it has taken
    pidfile,    \* main_runner.pid: the PID written in it, or None
    runners,    \* per main_runner process: where it is, its running_processes
    children,   \* the monitor processes started so far: script, parent, alive
    smpplog     \* per SMPP instance the lines of its log file

comVars == <<mon, now, npolls, sink, last>>
sVars == <<cooldown, sfile, hist>>
mVars == <<perCool, defCool, mfile>>
aVars == <<aggCfg, counts, alerts, status, offs, content, scanlog>>
scVars == <<logdata, cursor, scanCfg, total, lastScan, appendOnly>>
pVars == <<pool>>
stVars == <<disk, loaded, saving, proc>>
mlVars == <<outbox, mailer, probe>>
cVars == <<call>>
xVars == <<cpu, pidfile, runners, children, smpplog>>
vars == <<comVars, sVars, mVars, aVars, scVars, pVars, stVars, mlVars, cVars, xVars>>

----------------------------------------------------------------------------
(* Program constants *)

STATUS_OK == "OK"
STATUS_FAIL == "FAIL"
\* json null / Python None of last_alert_time
None == -1

(* Bounds of the model *)

\* first value of int(time.time())
Epoch0 == 100
\* polls of the single-entity monitor
MaxPolls == 4
\* seconds between two polls
Dts == {1, 5, 26}
\* cooldown_seconds values of the configuration
Cooldowns == {0, 3, 30}

Statuses == {STATUS_OK, STATUS_FAIL}

----------------------------------------------------------------------------
(* The alert logic every monitor repeats *)

\* the if / elif chain on (previous_status, current_status); a variant that
\* forgets the cooldown test
DebounceNoCooldown(previous_status, last_alert_time, current_status, cd, t) ==
    IF previous_status = STATUS_OK /\ current_status = STATUS_FAIL
    THEN [status |-> STATUS_FAIL, lat |-> t, alert |-> "detected"]
    ELSE IF previous_status = STATUS_FAIL /\ current_status = STATUS_FAIL
    THEN [status |-> STATUS_FAIL, lat |-> t, alert |-> "still failing"]
    ELSE IF previous_status = STATUS_FAIL /\ current_status = STATUS_OK
    THEN [status |-> STATUS_OK, lat |-> None, alert |-> "resolved"]
    ELSE [status |-> previous_status, lat |-> last_alert_time, alert |-> "none"]

\* a variant whose resolved branch keeps last_alert_time
DebounceKeepLat(previous_status, last_alert_time, current_status, cd, t) ==
    IF previous_status = STATUS_OK /\ current_status = STATUS_FAIL
    THEN [status |-> STATUS_FAIL, lat |-> t, alert |-> "detected"]
    ELSE IF previous_status = STATUS_FAIL /\ current_status = STATUS_FAIL
    THEN IF last_alert_time = None \/ (t - last_alert_time) >= cd
         THEN [status |-> STATUS_FAIL, lat |-> t, alert |-> "still failing"]
         ELSE [status |-> previous_status, lat |-> last_alert_time, alert |-> "none"]
    ELSE IF previous_status = STATUS_FAIL /\ current_status = STATUS_OK
    THEN [status |-> STATUS_OK, lat |-> last_alert_time, alert |-> "resolved"]
    ELSE [status |-> previous_status, lat |-> last_alert_time, alert |-> "none"]

\* a variant whose resolved branch does not test the previous status
DebounceAnyPrev(previous_status, last_alert_time, current_status, cd, t) ==
    IF previous_status = STATUS_OK /\ current_status = STATUS_FAIL
    THEN [status |-> STATUS_FAIL, lat |-> t, alert |-> "detected"]
    ELSE IF previous_status = STATUS_FAIL /\ current_status = STATUS_FAIL
    THEN IF last_alert_time = None \/ (t - last_alert_time) >= cd
         THEN [status |-> STATUS_FAIL, lat |-> t, alert |-> "still failing"]
         ELSE [status |-> previous_status, lat |-> last_alert_time, alert |-> "none"]
    ELSE [status |-> STATUS_OK, lat |-> None, alert |-> "resolved"]

\* OK -> FAIL alerts and sets last_alert_time; FAIL -> FAIL alerts once the
\* cooldown has elapsed; FAIL -> OK sends the resolved mail and clears it
Debounce(previous_status, last_alert_time, current_status, cd, t) ==
    IF previous_status = STATUS_OK /\ current_status = STATUS_FAIL
    THEN [status |-> STATUS_FAIL, lat |-> t, alert |-> "detected"]
    ELSE IF previous_status = STATUS_FAIL /\ current_status = STATUS_FAIL
    THEN IF last_alert_time = None \/ (t - last_alert_time) >= cd
         THEN [status |-> STATUS_FAIL, lat |-> t, alert |-> "still failing"]
         ELSE [status |-> previous_status, lat |-> last_alert_time, alert |-> "none"]
    ELSE IF previous_status = STATUS_FAIL /\ current_status = STATUS_OK
    THEN [status |-> STATUS_OK, lat |-> None, alert |-> "resolved"]
    ELSE [status |-> previous_status, lat |-> last_alert_time, alert |-> "none"]

\* what one poll looked like for one entity
PollRec(ps, pl, cur, cd, t, d) ==
    [prev_status |-> ps, prev_lat |-> pl, sig |-> cur, cd |-> cd, t |-> t,
     status |-> d.status, lat |-> d.lat, alert |-> d.alert]

NoPoll == [e \in {} |-> 0]

----------------------------------------------------------------------------
(* Single-entity monitors (check_ping, check_uptime, monitor_cfg,          *)
(* monitor_cpu, monitor_ha_proxy_keeplived, monitor_ss7_cdr)               *)

NoFile == [exists |-> FALSE, status |-> STATUS_OK, lat |-> None]

\* the state file's content, or the default record when there is no file
load_state(f) ==
    IF f.exists THEN [status |-> f.status, lat |-> f.lat]
    ELSE [status |-> STATUS_OK, lat |-> None]

\* json.dump of the record over the state file
save_state(state) ==
    [exists |-> TRUE, status |-> state.status, lat |-> state.lat]

\* one run of check_server: load, probe, alert, save
check_server(cur, dt) ==
    LET t == now + dt
        state == load_state(sfile)
        d == Debounce(state.status, state.lat, cur, cooldown, t)
    IN  /\ mon = "single"
        /\ npolls < MaxPolls
        /\ now' = t
        /\ npolls' = npolls + 1
        /\ sink' = IF d.alert = "none" THEN sink
                   ELSE Append(sink, [ent |-> "srv", kind |-> d.alert, t |-> t])
        /\ sfile' = IF d.alert = "none" THEN sfile
                    ELSE save_state([status |-> d.status, lat |-> d.lat])
        /\ hist' = Append(hist, [sig |-> cur, t |-> t])
        /\ last' = [e \in {"srv"} |-> PollRec(state.status, state.lat, cur, cooldown, t, d)]
        /\ UNCHANGED <<mon, cooldown, mVars, aVars, scVars, pVars, stVars, mlVars, cVars, xVars>>

\* check_server killed after send_alert returned and before save_state ran;
\* the runner starts the script again with the state file as it was
check_server_killed(cur, dt) ==
    LET t == now + dt
        state == load_state(sfile)
        d == Debounce(state.status, state.lat, cur, cooldown, t)
    IN  /\ mon = "single"
        /\ npolls < MaxPolls
        /\ d.alert # "none"
        /\ now' = t
        /\ npolls' = npolls + 1
        /\ sink' = Append(sink, [ent |-> "srv", kind |-> d.alert, t |-> t])
        /\ hist' = Append(hist, [sig |-> cur, t |-> t])
        /\ last' = [e \in {"srv"} |->
                      PollRec(state.status, state.lat, cur, cooldown, t,
                              [status |-> state.status, lat |-> state.lat, alert |-> d.alert])]
        /\ UNCHANGED <<mon, cooldown, sfile, mVars, aVars, scVars, pVars, stVars, mlVars, cVars, xVars>>

----------------------------------------------------------------------------
(* Per-entity monitors: monitor_jar (one record per process name) and      *)
(* monitor_storage (one record per mount point)                            *)

Entities == {"e1", "e2"}
\* the order in which the configuration lists them
EntSeq == <<"e1", "e2">>
\* polls of a per-entity monitor
MaxEntPolls == 3
EntDts == {1, 5}

\* a variant in which every entity reads the record of the first one
get_state_first(state, name) ==
    IF EntSeq[1] \in DOMAIN state THEN state[EntSeq[1]]
    ELSE [status |-> STATUS_OK, lat |-> None]

\* state.get(name, {"status": STATUS_OK, "last_alert_time": None})
get_state(state, name) ==
    IF name \in DOMAIN state THEN state[name]
    ELSE [status |-> STATUS_OK, lat |-> None]

\* d[k] = v of a Python dict
Put(d, k, v) == [x \in (DOMAIN d) \cup {k} |-> IF x = k THEN v ELSE d[x]]

\* d.pop(k, None)
Pop(d, k) == [x \in (DOMAIN d) \ {k} |-> d[x]]

\* cooldown = per_jar_cooldown or default_cooldown
JarCooldown(per_jar_cooldown, default_cooldown) ==
    IF per_jar_cooldown = None \/ per_jar_cooldown = 0
    THEN default_cooldown ELSE per_jar_cooldown

\* the for loop of monitor_jar_processes from the i-th process on; acc carries
\* the state dict (saved in every alerting branch), the mails sent and the
\* poll records
RECURSIVE jar_loop(_, _, _, _)
jar_loop(i, acc, is_running, t) ==
    IF i > Len(EntSeq) THEN acc
    ELSE LET jar_name == EntSeq[i]
             cd == JarCooldown(perCool[jar_name], defCool)
             jar_state == get_state(acc.state, jar_name)
             current_status == IF is_running[jar_name] THEN STATUS_OK ELSE STATUS_FAIL
             d == Debounce(jar_state.status, jar_state.lat, current_status, cd, t)
         IN  jar_loop(i + 1,
                 [state |-> IF d.alert = "none" THEN acc.state
                            ELSE Put(acc.state, jar_name, [status |-> d.status, lat |-> d.lat]),
                  sink |-> IF d.alert = "none" THEN acc.sink
                           ELSE Append(acc.sink, [ent |-> jar_name, kind |-> d.alert, t |-> t]),
                  last |-> Put(acc.last, jar_name,
                               PollRec(jar_state.status, jar_state.lat, current_status, cd, t, d))],
                 is_running, t)

\* one cycle of monitor_jar_processes
monitor_jar_processes(is_running, dt) ==
    LET t == now + dt
        r == jar_loop(1, [state |-> mfile, sink |-> sink, last |-> NoPoll], is_running, t)
    IN  /\ mon = "jar"
        /\ npolls < MaxEntPolls
        /\ now' = t
        /\ npolls' = npolls + 1
        /\ mfile' = r.state
        /\ sink' = r.sink
        /\ last' = r.last
        /\ UNCHANGED <<mon, perCool, defCool, sVars, aVars, scVars, pVars, stVars, mlVars, cVars, xVars>>

\* the for loop of monitor_storage from the i-th mount on; usage[mount] is
\* OK (below the threshold), FAIL (at or above it) or "error" (disk_usage raised)
RECURSIVE storage_loop(_, _, _, _)
storage_loop(i, acc, usage, t) ==
    IF i > Len(EntSeq) THEN acc
    ELSE LET mount == EntSeq[i]
             cd == perCool[mount]
             mount_state == get_state(acc.state, mount)
             d == Debounce(mount_state.status, mount_state.lat, usage[mount], cd, t)
         IN  IF usage[mount] = "error" THEN storage_loop(i + 1, acc, usage, t)
             ELSE storage_loop(i + 1,
                     [state |-> Put(acc.state, mount, [status |-> d.status, lat |-> d.lat]),
                      sink |-> IF d.alert = "none" THEN acc.sink
                               ELSE Append(acc.sink, [ent |-> mount, kind |-> d.alert, t |-> t]),
                      last |-> Put(acc.last, mount,
                                   PollRec(mount_state.status, mount_state.lat, usage[mount], cd, t, d))],
                     usage, t)

\* one cycle of monitor_storage: the loop, then save_state
monitor_storage(usage, dt) ==
    LET t == now + dt
        r == storage_loop(1, [state |-> mfile, sink |-> sink, last |-> NoPoll], usage, t)
    IN  /\ mon = "storage"
        /\ npolls < MaxEntPolls
        /\ now' = t
        /\ npolls' = npolls + 1
        /\ mfile' = r.state
        /\ sink' = r.sink
        /\ last' = r.last
        /\ UNCHANGED <<mon, perCool, defCool, sVars, aVars, scVars, pVars, stVars, mlVars, cVars, xVars>>

----------------------------------------------------------------------------
(* Log-pattern aggregators: monitor_responces of appserver_01_script_voice *)
(* (offset cursors, one window per label over all trace files) and of      *)
(* appserver_01_script (grep -c per file, one record per file and label)   *)

Files == {"f1", "f2"}
FileSeq == <<"f1", "f2">>
Labels == {"l1", "l2"}
LabelSeq == <<"l1", "l2">>
\* what happens to a trace file between two polls: nothing, or one more
\* byte that matches the pattern of that label
FileEvents == {"idle", "l1", "l2"}
\* polls of an aggregator
MaxAggPolls == 3
\* runs of the parallel aggregator with its workers as separate steps
MaxPoolRuns == 3
AggDts == {1, 2}
AggIntervals == {2}
AggCooldowns == {0, 3}

\* d.get(k, default)
Get(d, k, default) == IF k \in DOMAIN d THEN d[k] ELSE default

\* the trace files after the writers appended
Grow(c, ev) == [f \in Files |-> IF ev[f] = "idle" THEN c[f] ELSE Append(c[f], ev[f])]

\* len(regex.findall(new_data)) for the bytes after position offset
RECURSIVE CountFrom(_, _, _)
CountFrom(data, offset, label) ==
    IF offset >= Len(data) THEN 0
    ELSE (IF data[offset + 1] = label THEN 1 ELSE 0) + CountFrom(data, offset + 1, label)

\* the worker: per file (count of new matches, new offset), read from the
\* snapshot of the offsets it was given
process_pattern(label, files, shared_counts) ==
    [file \in Files |->
        LET size == Len(files[file])
            stored == Get(shared_counts, <<file, label>>, 0)
            offset == IF stored > size THEN 0 ELSE stored
        IN  [count |-> CountFrom(files[file], offset, label), new_offset |-> size]]

RECURSIVE SumCounts(_, _)
SumCounts(res, i) ==
    IF i > Len(FileSeq) THEN 0
    ELSE (IF FileSeq[i] \in DOMAIN res THEN res[FileSeq[i]].count ELSE 0)
            + SumCounts(res, i + 1)

\* a variant that forgets what earlier cycles of the window added
AccumulateOnlyLast(delta, total_delta) == total_delta

\* delta += total_delta
AccumulateDelta(delta, total_delta) == delta + total_delta

\* a variant that also folds the delta into the baseline
StoreDeltaRebase(rec, delta) ==
    [rec EXCEPT !.delta = delta, !.baseline = rec.baseline + delta]

\* state["counts"][key]["delta"] = delta
StoreDelta(rec, delta) == [rec EXCEPT !.delta = delta]

\* the for loop of monitor() over the patterns, from the i-th on, after the
\* pool returned pattern_result_map; acc carries the state dict, the labels
\* of failed_alerts and resolved_alerts and the poll records
RECURSIVE voice_loop(_, _, _, _)
voice_loop(i, acc, pattern_result_map, t) ==
    IF i > Len(LabelSeq) THEN acc
    ELSE
    LET label == LabelSeq[i]
        interval == aggCfg[label].interval
        cd == aggCfg[label].cooldown
        res == Get(pattern_result_map, label, NoPoll)
        total_delta == SumCounts(res, 1)
        offs1 == [k \in (DOMAIN acc.offs) \cup {<<f, label>> : f \in DOMAIN res} |->
                     IF k[2] = label /\ k[1] \in DOMAIN res
                     THEN res[k[1]].new_offset ELSE acc.offs[k]]
        acc1 == [acc EXCEPT !.offs = offs1,
                            !.scanlog = [acc.scanlog EXCEPT ![label] =
                                            Append(@, [t |-> t, n |-> total_delta])]]
        last_alert == Get(acc.alerts, label, 0)
        prev_status == Get(acc.status, label, STATUS_OK)
    IN
    IF label \notin DOMAIN acc.counts
    THEN voice_loop(i + 1,
            [acc1 EXCEPT !.counts = Put(acc.counts, label,
                              [baseline |-> total_delta, delta |-> 0, window_start |-> t]),
                         !.status = Put(acc.status, label, STATUS_OK)],
            pattern_result_map, t)
    ELSE
    LET baseline == acc.counts[label].baseline
        window_start == acc.counts[label].window_start
        delta == AccumulateDelta(acc.counts[label].delta, total_delta)
        new_total == baseline + delta
        rolled == [baseline |-> new_total, delta |-> 0, window_start |-> t]
        prev_lat == Get(acc.alerts, label, None)
    IN
    IF t - window_start < interval
    THEN voice_loop(i + 1,
            [acc1 EXCEPT !.counts = Put(acc.counts, label,
                              StoreDelta(acc.counts[label], delta))],
            pattern_result_map, t)
    ELSE IF delta = 0
    THEN IF prev_status = STATUS_OK /\ t - last_alert >= cd
         THEN voice_loop(i + 1,
                [acc1 EXCEPT !.counts = Put(acc.counts, label, rolled),
                             !.alerts = Put(acc.alerts, label, t),
                             !.status = Put(acc.status, label, STATUS_FAIL),
                             !.failed = Append(acc.failed, label),
                             !.last = Put(acc.last, label,
                                 PollRec(prev_status, prev_lat, STATUS_FAIL, cd, t,
                                     [status |-> STATUS_FAIL, lat |-> t, alert |-> "detected"]))],
                pattern_result_map, t)
         ELSE voice_loop(i + 1,
                [acc1 EXCEPT !.counts = Put(acc.counts, label, rolled),
                             !.last = Put(acc.last, label,
                                 PollRec(prev_status, prev_lat, STATUS_FAIL, cd, t,
                                     [status |-> prev_status, lat |-> prev_lat, alert |-> "none"]))],
                pattern_result_map, t)
    ELSE IF prev_status = STATUS_FAIL
         THEN voice_loop(i + 1,
                [acc1 EXCEPT !.counts = Put(acc.counts, label, rolled),
                             !.status = Put(acc.status, label, STATUS_OK),
                             !.alerts = Pop(acc.alerts, label),
                             !.resolved = Append(acc.resolved, label),
                             !.last = Put(acc.last, label,
                                 PollRec(prev_status, prev_lat, STATUS_OK, cd, t,
                                     [status |-> STATUS_OK, lat |-> None, alert |-> "resolved"]))],
                pattern_result_map, t)
         ELSE voice_loop(i + 1,
                [acc1 EXCEPT !.counts = Put(acc.counts, label, rolled),
                             !.last = Put(acc.last, label,
                                 PollRec(prev_status, prev_lat, STATUS_OK, cd, t,
                                     [status |-> prev_status, lat |-> prev_lat, alert |-> "none"]))],
                pattern_result_map, t)

\* the rows of one mail, one alert per key
RECURSIVE Rows(_, _, _)
Rows(keys, kind, t) ==
    IF keys = <<>> THEN <<>>
    ELSE <<[ent |-> Head(keys), kind |-> kind, t |-> t]>> \o Rows(Tail(keys), kind, t)

\* one run of monitor(): the pool maps process_pattern over the patterns with
\* state["counts"] as loaded, the loop merges, the two mails go out, save_state
monitor_voice(ev, dt) ==
    LET t == now + dt
        files == Grow(content, ev)
        pattern_result_map == [label \in Labels |-> process_pattern(label, files, offs)]
        r == voice_loop(1, [offs |-> offs, counts |-> counts, alerts |-> alerts,
                            status |-> status, scanlog |-> scanlog,
                            failed |-> <<>>, resolved |-> <<>>, last |-> NoPoll],
                        pattern_result_map, t)
    IN  /\ mon = "voice"
        /\ npolls < MaxAggPolls
        /\ now' = t
        /\ npolls' = npolls + 1
        /\ content' = files
        /\ offs' = r.offs
        /\ counts' = r.counts
        /\ alerts' = r.alerts
        /\ status' = r.status
        /\ scanlog' = r.scanlog
        /\ sink' = sink \o Rows(r.failed, "detected", t) \o Rows(r.resolved, "resolved", t)
        /\ last' = r.last
        /\ UNCHANGED <<mon, aggCfg, sVars, mVars, scVars, pVars, stVars, mlVars, cVars, xVars>>

\* the pool is not running
NoPool == [running |-> FALSE, snap |-> NoPoll, pending |-> {}, results |-> NoPoll,
           t |-> 0, order |-> <<>>]

\* a variant of the orchestrator that does not wait for the workers
JoinedNoWait(pending) == TRUE

\* pool.map / pool.close / pool.join: every worker has returned
Joined(pending) == pending = {}

\* monitor() up to pool.map: the state is loaded, now is read, and every
\* worker is handed a pickled copy of state["counts"]
PoolStart(ev, dt) ==
    /\ mon = "pool"
    /\ ~pool.running
    /\ npolls < MaxPoolRuns
    /\ now' = now + dt
    /\ content' = Grow(content, ev)
    /\ pool' = [running |-> TRUE, snap |-> offs, pending |-> Labels, results |-> NoPoll,
                t |-> now + dt, order |-> <<>>]
    /\ UNCHANGED <<mon, npolls, sink, last, aggCfg, counts, alerts, status, offs, scanlog,
                   sVars, mVars, scVars, stVars, mlVars, cVars, xVars>>

\* the worker of one pattern runs process_pattern on its copy and returns
WorkerReturn(label) ==
    /\ mon = "pool"
    /\ pool.running
    /\ label \in pool.pending
    /\ pool' = [pool EXCEPT !.pending = @ \ {label},
                            !.results = Put(@, label, process_pattern(label, content, pool.snap)),
                            !.order = Append(@, label)]
    /\ UNCHANGED <<comVars, aVars, sVars, mVars, scVars, stVars, mlVars, cVars, xVars>>

\* monitor() after the pool returned: pattern_result_map = dict(results), the
\* loop over the patterns, the two mails, save_state
PoolMerge ==
    LET t == pool.t
        r == voice_loop(1, [offs |-> offs, counts |-> counts, alerts |-> alerts,
                            status |-> status, scanlog |-> scanlog,
                            failed |-> <<>>, resolved |-> <<>>, last |-> NoPoll],
                        pool.results, t)
    IN  /\ mon = "pool"
        /\ pool.running
        /\ Joined(pool.pending)
        /\ npolls' = npolls + 1
        /\ offs' = r.offs
        /\ counts' = r.counts
        /\ alerts' = r.alerts
        /\ status' = r.status
        /\ scanlog' = r.scanlog
        /\ sink' = sink \o Rows(r.failed, "detected", t) \o Rows(r.resolved, "resolved", t)
        /\ last' = r.last
        /\ pool' = [pool EXCEPT !.running = FALSE]
        /\ UNCHANGED <<mon, now, aggCfg, content, sVars, mVars, scVars, stVars, mlVars, cVars, xVars>>

\* run_grep_count: per trace file the number of matching lines in the file
run_grep_count(files, label) ==
    [file \in Files |-> CountFrom(files[file], 0, label)]

AppKeys == <<<<"f1", "l1">>, <<"f2", "l1">>, <<"f1", "l2">>, <<"f2", "l2">>>>

\* a variant that leaves the alert time of a resolved key in state["alerts"]
AppResolveKeepAlert(d, k) == d

\* state["alerts"].pop(key, None) of the resolved branch
AppResolve(d, k) == Pop(d, k)

\* the two nested loops of monitor(), patterns then files, from the i-th
\* (file, label) pair on
RECURSIVE app_loop(_, _, _, _)
app_loop(i, acc, files, t) ==
    IF i > Len(AppKeys) THEN acc
    ELSE
    LET key == AppKeys[i]
        label == key[2]
        interval == aggCfg[label].interval
        cd == aggCfg[label].cooldown
        curr == run_grep_count(files, label)[key[1]]
        last_alert == Get(acc.alerts, key, 0)
        prev_status == Get(acc.status, key, STATUS_OK)
        prev_lat == Get(acc.alerts, key, None)
        entry == [count |-> curr, time |-> t]
    IN
    IF key \notin DOMAIN acc.counts
    THEN app_loop(i + 1,
            [acc EXCEPT !.counts = Put(acc.counts, key, entry),
                        !.status = Put(acc.status, key, STATUS_OK)],
            files, t)
    ELSE IF t - acc.counts[key].time < interval
    THEN app_loop(i + 1, acc, files, t)
    ELSE IF curr <= acc.counts[key].count
    THEN IF prev_status = STATUS_OK /\ t - last_alert >= cd
         THEN app_loop(i + 1,
                [acc EXCEPT !.counts = Put(acc.counts, key, entry),
                            !.alerts = Put(acc.alerts, key, t),
                            !.status = Put(acc.status, key, STATUS_FAIL),
                            !.failed = Append(acc.failed, key),
                            !.last = Put(acc.last, key,
                                PollRec(prev_status, prev_lat, STATUS_FAIL, cd, t,
                                    [status |-> STATUS_FAIL, lat |-> t, alert |-> "detected"]))],
                files, t)
         ELSE app_loop(i + 1,
                [acc EXCEPT !.counts = Put(acc.counts, key, entry),
                            !.last = Put(acc.last, key,
                                PollRec(prev_status, prev_lat, STATUS_FAIL, cd, t,
                                    [status |-> prev_status, lat |-> prev_lat, alert |-> "none"]))],
                files, t)
    ELSE IF prev_status = STATUS_FAIL
         THEN app_loop(i + 1,
                [acc EXCEPT !.counts = Put(acc.counts, key, entry),
                            !.status = Put(acc.status, key, STATUS_OK),
                            !.alerts = AppResolve(acc.alerts, key),
                            !.resolved = Append(acc.resolved, key),
                            !.last = Put(acc.last, key,
                                PollRec(prev_status, prev_lat, STATUS_OK, cd, t,
                                    [status |-> STATUS_OK, lat |-> None, alert |-> "resolved"]))],
                files, t)
         ELSE app_loop(i + 1,
                [acc EXCEPT !.counts = Put(acc.counts, key, entry),
                            !.last = Put(acc.last, key,
                                PollRec(prev_status, prev_lat, STATUS_OK, cd, t,
                                    [status |-> prev_status, lat |-> prev_lat, alert |-> "none"]))],
                files, t)

\* one run of monitor() of appserver_01_script
monitor_app(ev, dt) ==
    LET t == now + dt
        files == Grow(content, ev)
        r == app_loop(1, [counts |-> counts, alerts |-> alerts, status |-> status,
                          failed |-> <<>>, resolved |-> <<>>, last |-> NoPoll],
                      files, t)
    IN  /\ mon = "app"
        /\ npolls < MaxAggPolls
        /\ now' = t
        /\ npolls' = npolls + 1
        /\ content' = files
        /\ counts' = r.counts
        /\ alerts' = r.alerts
        /\ status' = r.status
        /\ sink' = sink \o Rows(r.failed, "detected", t) \o Rows(r.resolved, "resolved", t)
        /\ last' = r.last
        /\ UNCHANGED <<mon, aggCfg, offs, scanlog, sVars, mVars, scVars, pVars, stVars, mlVars, cVars, xVars>>

----------------------------------------------------------------------------
(* The offset-checkpointed scanners: process_pattern (regex over the new    *)
(* bytes) and read_new_errors (substring match over the new lines)          *)

\* characters of a log file; "n" is the line feed
Chars == {"a", "b", "n"}
\* length of the log file
MaxLogLen == 3
\* scans of the log file
MaxScans == 2
\* grep regexes / match_patterns, as literal strings
Patterns == {<<"a">>, <<"a", "b">>, <<"a", "a">>}
\* ignore_patterns
IgnoreSets == {{}, {<<"b">>}}

\* pattern occurs in data at position i
MatchAt(data, pat, i) ==
    /\ i + Len(pat) - 1 <= Len(data)
    /\ \A j \in 1..Len(pat) : data[i + j - 1] = pat[j]

\* len(regex.findall(data)): leftmost non-overlapping occurrences from position i
RECURSIVE FindAll(_, _, _)
FindAll(data, pat, i) ==
    IF i > Len(data) THEN 0
    ELSE IF MatchAt(data, pat, i) THEN 1 + FindAll(data, pat, i + Len(pat))
    ELSE FindAll(data, pat, i + 1)

\* p in line
Contains(line, pat) == \E i \in 1..Len(line) : MatchAt(line, pat, i)

\* f.readlines(): the lines of data, each with its line feed, the last one
\* possibly without
RECURSIVE ReadLines(_, _)
ReadLines(data, cur) ==
    IF data = <<>> THEN (IF cur = <<>> THEN <<>> ELSE <<cur>>)
    ELSE IF Head(data) = "n" THEN <<Append(cur, "n")>> \o ReadLines(Tail(data), <<>>)
    ELSE ReadLines(Tail(data), Append(cur, Head(data)))

\* the filter loop of read_new_errors: lines with a match pattern and no
\* ignore pattern
RECURSIVE Filtered(_, _, _)
Filtered(lines, match_patterns, ignore_patterns) ==
    IF lines = <<>> THEN 0
    ELSE (IF (\E p \in match_patterns : Contains(Head(lines), p))
             /\ ~(\E p \in ignore_patterns : Contains(Head(lines), p))
          THEN 1 ELSE 0) + Filtered(Tail(lines), match_patterns, ignore_patterns)

\* a variant that starts at the end of the file when the stored offset is
\* past it
SeekOffsetEnd(offset, size) == IF offset > size THEN size ELSE offset

\* if offset > size: offset = 0
SeekOffset(offset, size) == IF offset > size THEN 0 ELSE offset

\* f.seek(offset); f.read() / f.readlines(): the file from the offset on
ReadFrom(data, offset) == SubSeq(data, offset + 1, Len(data))

\* what the scanner counts in a piece of text
CountIn(cfg, text) ==
    IF cfg.kind = "regex" THEN FindAll(text, cfg.pat, 1)
    ELSE Filtered(ReadLines(text, <<>>), {cfg.pat}, cfg.ignore)

\* process_pattern on one file / read_new_errors: the count of the new
\* content and the new offset
scan(cfg, data, stored) ==
    LET size == Len(data)
        offset == SeekOffset(stored, size)
        new_data == ReadFrom(data, offset)
    IN  [count |-> CountIn(cfg, new_data), new_offset |-> size, from |-> offset]

\* the writer appends one character to the log
WriteLog(c) ==
    /\ mon = "scan"
    /\ Len(logdata) < MaxLogLen
    /\ logdata' = Append(logdata, c)
    /\ UNCHANGED <<comVars, sVars, mVars, aVars, cursor, scanCfg, total, lastScan, appendOnly, pVars, stVars, mlVars, cVars, xVars>>

\* the log is truncated or replaced by a new empty file (once per behaviour)
RotateLog ==
    /\ mon = "scan"
    /\ appendOnly
    /\ logdata # <<>>
    /\ logdata' = <<>>
    /\ appendOnly' = FALSE
    /\ lastScan' = [lastScan EXCEPT !.rotated = TRUE]
    /\ UNCHANGED <<comVars, sVars, mVars, aVars, cursor, scanCfg, total, pVars, stVars, mlVars, cVars, xVars>>

\* one poll scans the log from the stored offset and stores the returned one
ScanLog ==
    LET r == scan(scanCfg, logdata, cursor)
    IN  /\ mon = "scan"
        /\ npolls < MaxScans
        /\ npolls' = npolls + 1
        /\ cursor' = r.new_offset
        /\ total' = total + r.count
        /\ lastScan' = [done |-> TRUE, stored |-> cursor, data |-> logdata,
                        count |-> r.count, new_offset |-> r.new_offset, from |-> r.from,
                        rotated |-> FALSE, after_rotation |-> lastScan.rotated]
        /\ UNCHANGED <<mon, now, sink, last, sVars, mVars, aVars, logdata, scanCfg, appendOnly, pVars, stVars, mlVars, cVars, xVars>>

----------------------------------------------------------------------------
(* The state file as text: json.dump / json.load, open(file, "w"), and the  *)
(* single-entity poll loop (monitor_cpu) on top of them                     *)

\* polls of the monitor over the textual state file
MaxStorePolls == 2
\* the environment damages the state file at most this often
MaxTampers == 1
StoreDts == {1, 5}
\* which script's load_state is called
StoreKinds == {"cpu", "trace", "voice"}

\* the tokens of a JSON text
TOpen == [k |-> "open", v |-> 0]
TClose == [k |-> "close", v |-> 0]
TJunk == [k |-> "junk", v |-> 0]
TKey(name) == [k |-> "key", v |-> name]
TVal(x) == [k |-> "val", v |-> x]

\* the keys of a record in the order json.dump writes them
KeyOrder(value) ==
    IF DOMAIN value = {"status", "last_alert_time"} THEN <<"status", "last_alert_time">>
    ELSE IF DOMAIN value = {"status", "last_alert_time", "files"}
    THEN <<"status", "last_alert_time", "files">>
    ELSE IF DOMAIN value = {"counts", "alerts", "status"} THEN <<"counts", "alerts", "status">>
    ELSE <<>>

RECURSIVE DumpPairs(_, _, _)
DumpPairs(value, keys, i) ==
    IF i > Len(keys) THEN <<>>
    ELSE <<TKey(keys[i]), TVal(value[keys[i]])>> \o DumpPairs(value, keys, i + 1)

\* json.dump(state, f): the text of a dict
json_dump(value) == <<TOpen>> \o DumpPairs(value, KeyOrder(value), 1) \o <<TClose>>

ParseError == [ok |-> FALSE, value |-> NoPoll]

\* the members of an object from token i on, up to the closing brace that
\* must end the text
RECURSIVE ParseObject(_, _, _)
ParseObject(text, i, acc) ==
    IF i > Len(text) THEN ParseError
    ELSE IF text[i].k = "close"
    THEN (IF i = Len(text) THEN [ok |-> TRUE, value |-> acc] ELSE ParseError)
    ELSE IF text[i].k = "key" /\ i + 1 <= Len(text) /\ text[i + 1].k = "val"
    THEN ParseObject(text, i + 2, Put(acc, text[i].v, text[i + 1].v))
    ELSE ParseError

\* json.load(f): the dict of a complete text, JSONDecodeError otherwise
json_load(text) ==
    IF Len(text) >= 1 /\ text[1].k = "open" THEN ParseObject(text, 2, NoPoll)
    ELSE ParseError

\* the record load_state returns when it cannot read one
DefaultState(kind) ==
    CASE kind = "cpu" -> [x \in {"status", "last_alert_time"} |->
                             IF x = "status" THEN STATUS_OK ELSE None]
      [] kind = "trace" -> [x \in {"status", "last_alert_time", "files"} |->
                             IF x = "status" THEN STATUS_OK
                             ELSE IF x = "last_alert_time" THEN None ELSE NoPoll]
      [] kind = "voice" -> [x \in {"counts", "alerts", "status"} |-> NoPoll]

\* a variant without the try / except around json.load
load_state_json_raising(d, kind) ==
    IF d.exists
    THEN (IF json_load(d.text).ok
          THEN [raised |-> FALSE, value |-> json_load(d.text).value]
          ELSE [raised |-> TRUE, value |-> NoPoll])
    ELSE [raised |-> FALSE, value |-> DefaultState(kind)]

\* load_state(state_file) on the file as text
load_state_json(d, kind) ==
    IF d.exists /\ json_load(d.text).ok
    THEN [raised |-> FALSE, value |-> json_load(d.text).value]
    ELSE [raised |-> FALSE, value |-> DefaultState(kind)]

\* state["status"] and state["last_alert_time"] do not raise KeyError
Readable(value) == {"status", "last_alert_time"} \subseteq DOMAIN value

NoDisk == [exists |-> FALSE, text |-> <<>>]
NoLoad == [done |-> FALSE, kind |-> "cpu", disk |-> NoDisk, raised |-> FALSE, value |-> NoPoll]
NoSave == [done |-> FALSE, killed |-> FALSE, prev |-> NoPoll, new |-> NoPoll]

\* open(state_file, "w") truncates the file, json.dump writes the text; a
\* writer stopped after k tokens leaves that much of it, k = -1 is a writer
\* stopped before open()
WrittenUpTo(d, text, k) ==
    IF k < 0 THEN d ELSE [exists |-> TRUE, text |-> SubSeq(text, 1, k)]

\* load_state of one of the scripts on the file as it is
LoadState(kind) ==
    LET r == load_state_json(disk, kind)
    IN  /\ mon = "store"
        /\ proc.alive
        /\ loaded' = [done |-> TRUE, kind |-> kind, disk |-> disk,
                      raised |-> r.raised, value |-> r.value]
        /\ UNCHANGED <<comVars, sVars, mVars, aVars, scVars, pVars, disk, saving, proc, mlVars, cVars, xVars>>

\* one iteration of the while loop of monitor_cpu: load_state, the alert
\* logic, send_alert, save_state. how is "done" (save_state returned),
\* "killed" (the process was killed inside save_state after k tokens and
\* started again) or "ioerror" (open or write raised OSError after k tokens)
StoreIteration(cur, dt, how, k) ==
    LET t == now + dt
        r == load_state_json(disk, "cpu")
        ok == ~r.raised /\ Readable(r.value)
        ps == IF ok THEN r.value["status"] ELSE STATUS_OK
        pl == IF ok THEN r.value["last_alert_time"] ELSE None
        d == Debounce(ps, pl, cur, cooldown, t)
        new == IF ok THEN [r.value EXCEPT !["status"] = d.status,
                                          !["last_alert_time"] = d.lat]
               ELSE r.value
        text == json_dump(new)
    IN  /\ mon = "store"
        /\ proc.alive
        /\ npolls < MaxStorePolls
        /\ now' = t
        /\ npolls' = npolls + 1
        /\ loaded' = [done |-> TRUE, kind |-> "cpu", disk |-> disk,
                      raised |-> r.raised, value |-> r.value]
        /\ IF ~ok
           THEN /\ how = "done" /\ k = 0
                /\ proc' = [alive |-> FALSE, ioerror |-> FALSE]
                /\ UNCHANGED <<sink, last, disk, saving, mlVars>>
           ELSE /\ last' = [e \in {"srv"} |-> PollRec(ps, pl, cur, cooldown, t, d)]
                /\ IF d.alert = "none"
                   THEN /\ how = "done" /\ k = 0
                        /\ proc' = [alive |-> TRUE, ioerror |-> FALSE]
                        /\ UNCHANGED <<sink, disk, saving, mlVars>>
                   ELSE /\ sink' = Append(sink, [ent |-> "srv", kind |-> d.alert, t |-> t])
                        /\ k < Len(text)
                        /\ disk' = IF how = "done" THEN [exists |-> TRUE, text |-> text]
                                   ELSE WrittenUpTo(disk, text, k)
                        /\ saving' = [done |-> TRUE, killed |-> how = "killed",
                                      prev |-> r.value, new |-> new]
                        /\ proc' = [alive |-> how # "ioerror", ioerror |-> how = "ioerror"]
        /\ UNCHANGED <<mon, cooldown, sfile, hist, mVars, aVars, scVars, pVars, mlVars, cVars, xVars>>

store_poll(cur, dt) == StoreIteration(cur, dt, "done", 0)

store_poll_killed(cur, dt, k) == StoreIteration(cur, dt, "killed", k)

store_poll_ioerror(cur, dt, k) == StoreIteration(cur, dt, "ioerror", k)

\* the state file is removed, emptied, overwritten with something that is
\* no JSON, or with {}
TamperFile(what) ==
    /\ mon = "store"
    /\ total < MaxTampers
    /\ total' = total + 1
    /\ disk' = CASE what = "remove" -> NoDisk
                 [] what = "empty" -> [exists |-> TRUE, text |-> <<>>]
                 [] what = "junk" -> [exists |-> TRUE, text |-> <<TJunk>>]
                 [] what = "braces" -> [exists |-> TRUE, text |-> <<TOpen, TClose>>]
    /\ UNCHANGED <<comVars, sVars, mVars, aVars, pVars, logdata, cursor, scanCfg, lastScan,
                   appendOnly, loaded, saving, proc, mlVars, cVars, xVars>>

\* the script is started again after it ended
RestartStore ==
    /\ mon = "store"
    /\ ~proc.alive
    /\ proc' = [alive |-> TRUE, ioerror |-> FALSE]
    /\ UNCHANGED <<comVars, sVars, mVars, aVars, scVars, pVars, disk, loaded, saving, mlVars, cVars, xVars>>

----------------------------------------------------------------------------
(* Delivery of the alert mails: send_alert of mail_utils inside the poll of *)
(* a single-entity monitor (monitor_smpp_cdr) and of the aggregator         *)

\* polls of a monitor whose mails may fail
MaxMailPolls == 3
MailDts == {2, 5}
\* what the SMTP server does with a mail
SmtpOutcomes == {"ok", "error", "timeout"}
\* the runs of the aggregator: seconds between two runs, what the trace
\* files get, what the SMTP server does
MailRunDts == {2}
MailEvents == {"idle", "l1"}
MailRunOutcomes == {"ok", "timeout"}

\* a variant without the try / except around smtplib
send_alert_raising(smtp) == [raised |-> smtp # "ok", delivered |-> smtp = "ok"]

\* send_alert(subject, html_body): one SMTP session; an exception of
\* smtplib is printed and swallowed
send_alert(smtp) == [raised |-> FALSE, delivered |-> smtp = "ok"]

\* one iteration of the while loop of monitor_smpp_cdr: the alert logic,
\* send_alert, then the state update and save_state
monitor_smpp_cdr(cur, dt, smtp) ==
    LET t == now + dt
        state == load_state(sfile)
        d == Debounce(state.status, state.lat, cur, cooldown, t)
        r == send_alert(smtp)
    IN  /\ mon = "mail"
        /\ proc.alive
        /\ npolls < MaxMailPolls
        /\ now' = t
        /\ npolls' = npolls + 1
        /\ hist' = Append(hist, [sig |-> cur, t |-> t])
        /\ last' = [e \in {"srv"} |-> PollRec(state.status, state.lat, cur, cooldown, t, d)]
        /\ IF d.alert = "none"
           THEN /\ smtp = "ok"
                /\ UNCHANGED <<sink, outbox, sfile, proc>>
           ELSE /\ sink' = Append(sink, [ent |-> "srv", kind |-> d.alert, t |-> t])
                /\ outbox' = Append(outbox, [ent |-> "srv", kind |-> d.alert, t |-> t,
                                             delivered |-> r.delivered, onfile |-> state])
                /\ sfile' = IF r.raised THEN sfile
                            ELSE save_state([status |-> d.status, lat |-> d.lat])
                /\ proc' = [proc EXCEPT !.alive = ~r.raised]
        /\ UNCHANGED <<mon, cooldown, mVars, aVars, scVars, pVars, disk, loaded, saving,
                       mailer, probe, cVars, xVars>>

\* the rows of one mail as send_alert dealt with them
RECURSIVE MailRows(_, _, _, _)
MailRows(keys, kind, t, r) ==
    IF keys = <<>> THEN <<>>
    ELSE <<[ent |-> Head(keys), kind |-> kind, t |-> t, delivered |-> r.delivered,
            onfile |-> [status |-> Get(status, Head(keys), STATUS_OK),
                        lat |-> Get(alerts, Head(keys), None)]]>>
         \o MailRows(Tail(keys), kind, t, r)

\* one run of monitor() of the windowed aggregator with the outcome of its
\* two mails: send_alert_html, send_resolved_html, then save_state
monitor_voice_mail(ev, dt, smtp_failed, smtp_resolved) ==
    LET t == now + dt
        files == Grow(content, ev)
        pattern_result_map == [label \in Labels |-> process_pattern(label, files, offs)]
        r == voice_loop(1, [offs |-> offs, counts |-> counts, alerts |-> alerts,
                            status |-> status, scanlog |-> scanlog,
                            failed |-> <<>>, resolved |-> <<>>, last |-> NoPoll],
                        pattern_result_map, t)
        rf == send_alert(smtp_failed)
        rr == send_alert(smtp_resolved)
        raised == (r.failed # <<>> /\ rf.raised) \/ (r.resolved # <<>> /\ rr.raised)
    IN  /\ mon = "mailvoice"
        /\ proc.alive
        /\ npolls < MaxMailPolls
        /\ r.failed = <<>> => smtp_failed = "ok"
        /\ r.resolved = <<>> => smtp_resolved = "ok"
        /\ now' = t
        /\ npolls' = npolls + 1
        /\ content' = files
        /\ sink' = sink \o Rows(r.failed, "detected", t)
                        \o (IF r.failed # <<>> /\ rf.raised THEN <<>>
                            ELSE Rows(r.resolved, "resolved", t))
        /\ outbox' = outbox \o MailRows(r.failed, "detected", t, rf)
                            \o (IF r.failed # <<>> /\ rf.raised THEN <<>>
                                ELSE MailRows(r.resolved, "resolved", t, rr))
        /\ last' = r.last
        /\ proc' = [proc EXCEPT !.alive = ~raised]
        /\ IF raised
           THEN UNCHANGED <<offs, counts, alerts, status, scanlog>>
           ELSE /\ offs' = r.offs
                /\ counts' = r.counts
                /\ alerts' = r.alerts
                /\ status' = r.status
                /\ scanlog' = r.scanlog
        /\ UNCHANGED <<mon, aggCfg, sVars, mVars, scVars, pVars, disk, loaded, saving,
                       mailer, probe, cVars, xVars>>

----------------------------------------------------------------------------
(* Initial states: one monitor script per behaviour *)

IdlePool == pool = NoPool

NoCall == [pos |-> "idle", kind |-> "none", hangs |-> FALSE, timeout |-> None]
IdleCall == call = NoCall

NoCpu == [high_cpu_start |-> None, samples |-> <<>>, restarted |-> FALSE, gen |-> 0,
          threshold |-> 0, duration |-> 0]
IdleExtra ==
    /\ cpu = NoCpu
    /\ pidfile = None
    /\ runners = <<>>
    /\ children = <<>>
    /\ smpplog = <<>>

NoMailer == [kind |-> "none", retries |-> 0, delay |-> 0, attempts |-> 0,
             results |-> <<>>, slept |-> <<>>, delivered |-> FALSE, finished |-> FALSE]
NoDb == [conf |-> FALSE, up |-> FALSE, age |-> None]
NoProbe == [done |-> FALSE, kind |-> "none", db |-> NoDb, uptime |-> None,
            active |-> FALSE, file |-> NoFile, sink |-> <<>>]

IdleMail ==
    /\ outbox = <<>>
    /\ mailer = NoMailer
    /\ probe = NoProbe

IdleStore ==
    /\ disk = NoDisk
    /\ loaded = NoLoad
    /\ saving = NoSave
    /\ proc = [alive |-> FALSE, ioerror |-> FALSE]

InitCommon ==
    /\ now = Epoch0
    /\ npolls = 0
    /\ sink = <<>>
    /\ last = NoPoll

IdleSingle ==
    /\ cooldown = 0
    /\ sfile = NoFile
    /\ hist = <<>>

IdleEnt ==
    /\ perCool = [e \in Entities |-> 0]
    /\ defCool = 0
    /\ mfile = NoPoll

IdleAgg ==
    /\ aggCfg = NoPoll
    /\ counts = NoPoll
    /\ alerts = NoPoll
    /\ status = NoPoll
    /\ offs = NoPoll
    /\ content = NoPoll
    /\ scanlog = NoPoll

IdleScan ==
    /\ logdata = <<>>
    /\ cursor = 0
    /\ scanCfg = [kind |-> "regex", pat |-> <<"a">>, ignore |-> {}]
    /\ total = 0
    /\ lastScan = [done |-> FALSE, stored |-> 0, data |-> <<>>, count |-> 0,
                   new_offset |-> 0, from |-> 0, rotated |-> FALSE,
                   after_rotation |-> FALSE]
    /\ appendOnly = TRUE

InitSingle ==
    /\ mon = "single"
    /\ InitCommon
    /\ IdleCall
    /\ IdleExtra
    /\ IdleMail
    /\ IdleStore
    /\ IdlePool
    /\ cooldown \in Cooldowns
    /\ sfile = NoFile
    /\ hist = <<>>
    /\ IdleEnt /\ IdleAgg /\ IdleScan

\* jar_monitor: processes {e1: 0, e2: 3} or {e1: null, e2: 30}
InitJar ==
    /\ mon = "jar"
    /\ InitCommon
    /\ IdleCall
    /\ IdleExtra
    /\ IdleMail
    /\ IdleStore
    /\ IdlePool
    /\ perCool \in {[e \in Entities |-> IF e = "e1" THEN 0 ELSE 3],
                    [e \in Entities |-> IF e = "e1" THEN None ELSE 30]}
    /\ defCool \in {0, 30}
    /\ mfile = NoPoll
    /\ IdleSingle /\ IdleAgg /\ IdleScan

InitStorage ==
    /\ mon = "storage"
    /\ InitCommon
    /\ IdleCall
    /\ IdleExtra
    /\ IdleMail
    /\ IdleStore
    /\ IdlePool
    /\ perCool \in {[e \in Entities |-> IF e = "e1" THEN 0 ELSE 3]}
    /\ defCool = 0
    /\ mfile = NoPoll
    /\ IdleSingle /\ IdleAgg /\ IdleScan

InitAggState ==
    /\ aggCfg \in {[l \in Labels |-> [interval |-> i, cooldown |-> c]] :
                      i \in AggIntervals, c \in AggCooldowns}
    /\ counts = NoPoll
    /\ alerts = NoPoll
    /\ status = NoPoll
    /\ offs = NoPoll
    /\ content = [f \in Files |-> <<>>]
    /\ scanlog = [l \in Labels |-> <<>>]

InitVoice ==
    /\ mon = "voice"
    /\ InitCommon
    /\ IdleCall
    /\ IdleExtra
    /\ IdleMail
    /\ IdleStore
    /\ IdlePool
    /\ InitAggState
    /\ IdleSingle /\ IdleEnt /\ IdleScan

InitApp ==
    /\ mon = "app"
    /\ InitCommon
    /\ IdleCall
    /\ IdleExtra
    /\ IdleMail
    /\ IdleStore
    /\ IdlePool
    /\ InitAggState
    /\ IdleSingle /\ IdleEnt /\ IdleScan

Init == InitSingle \/ InitJar \/ InitStorage \/ InitVoice \/ InitApp

Next ==
    \/ \E cur \in Statuses, dt \in Dts : check_server(cur, dt)
    \/ \E is_running \in [Entities -> BOOLEAN], dt \in EntDts :
          monitor_jar_processes(is_running, dt)
    \/ \E usage \in [Entities -> Statuses \cup {"error"}], dt \in EntDts :
          monitor_storage(usage, dt)
    \/ \E ev \in [Files -> FileEvents], dt \in AggDts : monitor_voice(ev, dt)
    \/ \E ev \in [Files -> FileEvents], dt \in AggDts : monitor_app(ev, dt)

Spec == Init /\ [][Next]_vars

NextKilled ==
    \/ \E cur \in Statuses, dt \in Dts : check_server(cur, dt)
    \/ \E cur \in Statuses, dt \in Dts : check_server_killed(cur, dt)

SpecKilled == InitSingle /\ [][NextKilled]_vars

InitScan ==
    /\ mon = "scan"
    /\ InitCommon
    /\ IdleCall
    /\ IdleExtra
    /\ IdleMail
    /\ IdleStore
    /\ IdlePool
    /\ IdleSingle /\ IdleEnt /\ IdleAgg
    /\ logdata = <<>>
    /\ cursor = 0
    /\ scanCfg \in {[kind |-> "regex", pat |-> p, ignore |-> {}] : p \in Patterns}
                 \cup {[kind |-> "lines", pat |-> p, ignore |-> ig] :
                           p \in Patterns, ig \in IgnoreSets}
    /\ total = 0
    /\ lastScan = [done |-> FALSE, stored |-> 0, data |-> <<>>, count |-> 0,
                   new_offset |-> 0, from |-> 0, rotated |-> FALSE,
                   after_rotation |-> FALSE]
    /\ appendOnly = TRUE

NextScan ==
    \/ \E c \in Chars : WriteLog(c)
    \/ RotateLog
    \/ ScanLog

SpecScan == InitScan /\ [][NextScan]_vars

InitPool ==
    /\ mon = "pool"
    /\ InitCommon
    /\ IdleCall
    /\ IdleExtra
    /\ IdleMail
    /\ IdleStore
    /\ InitAggState
    /\ pool = NoPool
    /\ IdleSingle /\ IdleEnt /\ IdleScan

NextPool ==
    \/ \E ev \in [Files -> FileEvents], dt \in AggDts : PoolStart(ev, dt)
    \/ \E label \in Labels : WorkerReturn(label)
    \/ PoolMerge

SpecPool == InitPool /\ [][NextPool]_vars

InitStore ==
    /\ mon = "store"
    /\ InitCommon
    /\ IdleCall
    /\ IdleExtra
    /\ IdleMail
    /\ IdlePool
    /\ cooldown \in {0, 3}
    /\ sfile = NoFile
    /\ hist = <<>>
    /\ IdleEnt /\ IdleAgg /\ IdleScan
    /\ disk = NoDisk
    /\ loaded = NoLoad
    /\ saving = NoSave
    /\ proc = [alive |-> TRUE, ioerror |-> FALSE]

NextStore ==
    \/ \E kind \in StoreKinds : LoadState(kind)
    \/ \E cur \in Statuses, dt \in StoreDts : store_poll(cur, dt)
    \/ \E cur \in Statuses, dt \in StoreDts, k \in 0..5 : store_poll_killed(cur, dt, k)
    \/ \E cur \in Statuses, dt \in StoreDts, k \in -1..5 : store_poll_ioerror(cur, dt, k)
    \/ \E what \in {"remove", "empty", "junk", "braces"} : TamperFile(what)
    \/ RestartStore

SpecStore == InitStore /\ [][NextStore]_vars

InitMail ==
    /\ mon = "mail"
    /\ InitCommon
    /\ IdleCall
    /\ IdleExtra
    /\ IdlePool
    /\ cooldown \in {0, 3}
    /\ sfile = NoFile
    /\ hist = <<>>
    /\ IdleEnt /\ IdleAgg /\ IdleScan
    /\ disk = NoDisk /\ loaded = NoLoad /\ saving = NoSave
    /\ proc = [alive |-> TRUE, ioerror |-> FALSE]
    /\ outbox = <<>> /\ mailer = NoMailer /\ probe = NoProbe

InitMailVoice ==
    /\ mon = "mailvoice"
    /\ InitCommon
    /\ IdleCall
    /\ IdleExtra
    /\ IdlePool
    /\ InitAggState
    /\ IdleSingle /\ IdleEnt /\ IdleScan
    /\ disk = NoDisk /\ loaded = NoLoad /\ saving = NoSave
    /\ proc = [alive |-> TRUE, ioerror |-> FALSE]
    /\ outbox = <<>> /\ mailer = NoMailer /\ probe = NoProbe

NextMail ==
    \/ \E cur \in Statuses, dt \in MailDts, smtp \in SmtpOutcomes :
          monitor_smpp_cdr(cur, dt, smtp)
    \/ \E ev \in [Files -> MailEvents], dt \in MailRunDts,
          smtp_failed \in MailRunOutcomes, smtp_resolved \in MailRunOutcomes :
          monitor_voice_mail(ev, dt, smtp_failed, smtp_resolved)

SpecMail == (InitMail \/ InitMailVoice) /\ [][NextMail]_vars

----------------------------------------------------------------------------
(* The senders: send_email_with_retry of the report, send_alert of an alert *)

\* mails sent in one behaviour of the senders
MaxMails == 2
\* def send_email_with_retry(retries=3, delay=5)
DefaultRetries == 3
DefaultDelay == 5
RetryCounts == {2, DefaultRetries}
\* get_latest_report / wait_for_complete_file: no report, one still growing, one complete
ReportFiles == {"none", "growing", "complete"}

\* for attempt in range(retries): the loop from its iteration `attempt` on;
\* outcomes[attempt + 1] is what smtplib does in that iteration
RECURSIVE RetryLoop(_, _, _)
RetryLoop(attempt, m, outcomes) ==
    IF attempt >= m.retries
    THEN [m EXCEPT !.finished = TRUE]
    ELSE LET outcome == outcomes[attempt + 1]
             tried == [m EXCEPT !.attempts = attempt + 1,
                                !.results = Append(m.results, outcome)]
         IN  CASE outcome = "ok" ->
                    \* print sent successfully; return
                    [tried EXCEPT !.delivered = TRUE, !.finished = TRUE]
               [] outcome = "error" ->
                    \* except smtplib.SMTPException
                    IF attempt < m.retries - 1
                    THEN RetryLoop(attempt + 1,
                                   [tried EXCEPT !.slept =
                                        Append(m.slept, m.delay * (2 ^ attempt))],
                                   outcomes)
                    ELSE RetryLoop(attempt + 1, tried, outcomes)
               [] OTHER ->
                    \* except Exception: print; return
                    [tried EXCEPT !.finished = TRUE]

send_email_with_retry(file, outcomes, retries, delay) ==
    LET m == [NoMailer EXCEPT !.kind = "report", !.retries = retries, !.delay = delay]
    IN  IF file = "none" \/ file = "growing"
        THEN [m EXCEPT !.finished = TRUE]
        ELSE RetryLoop(0, m, outcomes)

\* the mail of the latest call is kept in mailer, the earlier ones in outbox
Sent(m) ==
    /\ npolls < MaxMails
    /\ npolls' = npolls + 1
    /\ outbox' = IF mailer.kind = "none" THEN outbox ELSE Append(outbox, mailer)
    /\ mailer' = m
    /\ UNCHANGED <<mon, now, sink, last, sVars, mVars, aVars, scVars, pVars, stVars,
                   probe, cVars, xVars>>

\* python send_report.py
SendReport(file, outcomes, retries, delay) ==
    /\ mon = "retry"
    /\ Sent(send_email_with_retry(file, outcomes, retries, delay))

\* a monitor calls send_alert(subject, body)
SendAlert(smtp) ==
    /\ mon = "retry"
    /\ Sent([NoMailer EXCEPT !.kind = "alert", !.attempts = 1,
                             !.results = <<smtp>>,
                             !.delivered = send_alert(smtp).delivered,
                             !.finished = TRUE])

InitRetry ==
    /\ mon = "retry"
    /\ InitCommon
    /\ IdleCall
    /\ IdleExtra
    /\ IdleMail /\ IdleStore /\ IdlePool
    /\ IdleSingle /\ IdleEnt /\ IdleAgg /\ IdleScan

NextRetry ==
    \/ \E file \in ReportFiles, retries \in RetryCounts :
          \E outcomes \in [1..retries -> SmtpOutcomes] :
             SendReport(file, outcomes, retries, DefaultDelay)
    \/ \E smtp \in SmtpOutcomes : SendAlert(smtp)

SpecRetry == InitRetry /\ [][NextRetry]_vars

----------------------------------------------------------------------------
(* Gated monitors: the traffic check of monitor_trace / monitor_sip_errors,
   the uptime reading of check_uptime *)

\* cycles of a gated monitor in one behaviour
MaxGatePolls == 3
GateDts == {2, 5}
\* traffic_monitor.ss7.inactivity_threshold_seconds
InactivityThreshold == 5
\* SELECT EXTRACT(EPOCH FROM (NOW() - MAX(ts))): None when the table has no rows
RecordAges == {None, 3, 5, 8}
\* the traffic database as the check finds it: its config section present,
\* psycopg2.connect succeeding, the age of its latest record
TrafficDbs == [conf : BOOLEAN, up : BOOLEAN, age : RecordAges]
\* uptime_check.threshold_minutes
UptimeThreshold == 10
\* get_uptime_seconds() / 60: None when /proc/uptime cannot be read
Uptimes == {None, 4, 10, 25}

is_traffic_active_always(db) == TRUE

\* is_ss7_traffic_active(config), is_sip_traffic_active(config)
is_ss7_traffic_active(db) ==
    IF ~db.conf THEN FALSE
    ELSE IF ~db.up THEN FALSE
    ELSE IF db.age = None THEN FALSE
    ELSE db.age <= InactivityThreshold

\* one iteration of the loop of monitor_trace; cur is the status it derives from
\* the trace files of today
monitor_trace(db, cur, dt) ==
    LET t == now + dt
        active == is_ss7_traffic_active(db)
        state == load_state(sfile)
        d == Debounce(state.status, state.lat, cur, cooldown, t)
    IN  /\ mon = "gate"
        /\ npolls < MaxGatePolls
        /\ now' = t
        /\ npolls' = npolls + 1
        /\ probe' = [done |-> TRUE, kind |-> "db", db |-> db, uptime |-> None,
                     active |-> active, file |-> sfile, sink |-> sink]
        /\ IF ~active
           THEN UNCHANGED <<sink, sfile>>
           ELSE /\ sink' = IF d.alert = "none" THEN sink
                           ELSE Append(sink, [ent |-> "srv", kind |-> d.alert, t |-> t])
                /\ sfile' = save_state([status |-> d.status, lat |-> d.lat])
        /\ UNCHANGED <<mon, last, cooldown, hist, mVars, aVars, scVars, pVars, stVars,
                       outbox, mailer, cVars, xVars>>

\* one run of check_uptime; uptime is what get_uptime_seconds returned, in minutes
check_uptime(uptime, dt) ==
    LET t == now + dt
        state == load_state(sfile)
        current_status == IF uptime >= UptimeThreshold THEN STATUS_OK ELSE STATUS_FAIL
        d == Debounce(state.status, state.lat, current_status, cooldown, t)
    IN  /\ mon = "uptime"
        /\ npolls < MaxGatePolls
        /\ now' = t
        /\ npolls' = npolls + 1
        /\ probe' = [done |-> TRUE, kind |-> "uptime", db |-> NoDb, uptime |-> uptime,
                     active |-> uptime # None, file |-> sfile, sink |-> sink]
        /\ IF uptime = None \/ d.alert = "none"
           THEN UNCHANGED <<sink, sfile>>
           ELSE /\ sink' = Append(sink, [ent |-> "srv", kind |-> d.alert, t |-> t])
                /\ sfile' = save_state([status |-> d.status, lat |-> d.lat])
        /\ UNCHANGED <<mon, last, cooldown, hist, mVars, aVars, scVars, pVars, stVars,
                       outbox, mailer, cVars, xVars>>

InitGate ==
    /\ mon \in {"gate", "uptime"}
    /\ InitCommon
    /\ IdleCall
    /\ IdleExtra
    /\ IdleMail /\ IdleStore /\ IdlePool
    /\ cooldown \in {0, 3}
    /\ sfile = NoFile
    /\ hist = <<>>
    /\ IdleEnt /\ IdleAgg /\ IdleScan

NextGate ==
    \/ \E db \in TrafficDbs, cur \in Statuses, dt \in GateDts : monitor_trace(db, cur, dt)
    \/ \E uptime \in Uptimes, dt \in GateDts : check_uptime(uptime, dt)

SpecGate == InitGate /\ [][NextGate]_vars

----------------------------------------------------------------------------
(* Checks that raise: psutil.disk_usage in monitor_storage, systemctl in
   monitor_ha_proxy_keeplived, os.path.getmtime / getsize in monitor_smpp_cdr *)

\* cycles of one monitor in one behaviour
MaxIsoPolls == 3
IsoDts == {1, 5}
\* subprocess.check_output(["systemctl", "is-active", s]): prints active, exits
\* non-zero (CalledProcessError), or systemctl cannot be executed (FileNotFoundError)
ServiceOutcomes == {"active", "inactive", "notfound"}
\* a *.csv file of the listing when it is stat'ed: with bytes, empty, removed meanwhile
CdrFiles == {"data", "empty", "gone"}

\* check_service_status(service_name): except subprocess.CalledProcessError only
check_service_status(outcome) ==
    [raised |-> outcome = "notfound", active |-> outcome = "active"]

\* for service in services, from the i-th on, until a check raises
RECURSIVE ha_loop(_, _, _)
ha_loop(i, acc, outcomes) ==
    IF i > Len(EntSeq) THEN acc
    ELSE LET service == EntSeq[i]
             r == check_service_status(outcomes[service])
         IN  IF r.raised
             THEN [acc EXCEPT !.raised = TRUE,
                              !.last = Put(acc.last, service, [raised |-> TRUE])]
             ELSE ha_loop(i + 1,
                     [acc EXCEPT !.down = IF r.active THEN acc.down
                                          ELSE Append(acc.down, service),
                                 !.last = Put(acc.last, service, [raised |-> FALSE])],
                     outcomes)

\* the alert logic of the monitors with one record per state file
SingleAlert(current_status, t) ==
    LET state == load_state(sfile)
        d == Debounce(state.status, state.lat, current_status, cooldown, t)
    IN  IF d.alert = "none"
        THEN UNCHANGED <<sink, sfile>>
        ELSE /\ sink' = Append(sink, [ent |-> "srv", kind |-> d.alert, t |-> t])
             /\ sfile' = save_state([status |-> d.status, lat |-> d.lat])

\* one iteration of monitor_services of monitor_ha_proxy_keeplived
monitor_ha(outcomes, dt) ==
    LET t == now + dt
        r == ha_loop(1, [raised |-> FALSE, down |-> <<>>, last |-> NoPoll], outcomes)
    IN  /\ mon = "ha"
        /\ proc.alive
        /\ npolls < MaxIsoPolls
        /\ now' = t
        /\ npolls' = npolls + 1
        /\ last' = r.last
        /\ proc' = [proc EXCEPT !.alive = ~r.raised]
        /\ IF r.raised
           THEN UNCHANGED <<sink, sfile>>
           ELSE SingleAlert(IF r.down # <<>> THEN STATUS_FAIL ELSE STATUS_OK, t)
        /\ UNCHANGED <<mon, cooldown, hist, mVars, aVars, scVars, pVars, disk, loaded,
                       saving, mlVars, cVars, xVars>>

\* lines 120-154 of monitor_smpp_cdr: listing is what glob returned, newest
\* first; files is what each file is when getmtime / getsize look at it; grew is
\* whether a single empty file has grown after the 120 s
cdr_status(listing, files, grew) ==
    IF \E i \in 1..Len(listing) : files[listing[i]] = "gone"
    THEN [raised |-> TRUE, status |-> STATUS_OK, slept |-> 0]
    ELSE IF listing = <<>>
    THEN [raised |-> FALSE, status |-> STATUS_FAIL, slept |-> 0]
    ELSE IF Len(listing) = 2 /\ files[listing[1]] = "empty" /\ files[listing[2]] = "empty"
    THEN [raised |-> FALSE, status |-> STATUS_FAIL, slept |-> 0]
    ELSE IF Len(listing) = 1 /\ files[listing[1]] = "empty"
    THEN [raised |-> FALSE, status |-> IF grew THEN STATUS_OK ELSE STATUS_FAIL,
          slept |-> 120]
    ELSE [raised |-> FALSE, status |-> STATUS_OK, slept |-> 0]

\* one iteration of monitor_smpp_cdr with the traffic check passed
monitor_cdr(listing, files, grew, dt) ==
    LET r == cdr_status(listing, files, grew)
        t == now + dt + r.slept
    IN  /\ mon = "cdr"
        /\ proc.alive
        /\ npolls < MaxIsoPolls
        /\ now' = t
        /\ npolls' = npolls + 1
        /\ last' = [i \in {listing[j] : j \in 1..Len(listing)} |->
                       [raised |-> files[i] = "gone"]]
        /\ proc' = [proc EXCEPT !.alive = ~r.raised]
        /\ IF r.raised
           THEN UNCHANGED <<sink, sfile>>
           ELSE SingleAlert(r.status, t)
        /\ UNCHANGED <<mon, cooldown, hist, mVars, aVars, scVars, pVars, disk, loaded,
                       saving, mlVars, cVars, xVars>>

InitIso ==
    /\ mon \in {"storage", "ha", "cdr"}
    /\ InitCommon
    /\ IdleCall
    /\ IdleExtra
    /\ IdleMail /\ IdlePool
    /\ disk = NoDisk /\ loaded = NoLoad /\ saving = NoSave
    /\ proc = [alive |-> TRUE, ioerror |-> FALSE]
    /\ cooldown \in {0, 3}
    /\ sfile = NoFile
    /\ hist = <<>>
    /\ perCool = [e \in Entities |-> IF e = "e1" THEN 0 ELSE 3]
    /\ defCool = 0
    /\ mfile = NoPoll
    /\ IdleAgg /\ IdleScan

NextIso ==
    \/ \E usage \in [Entities -> Statuses \cup {"error"}], dt \in IsoDts :
          monitor_storage(usage, dt)
    \/ \E outcomes \in [Entities -> ServiceOutcomes], dt \in IsoDts :
          monitor_ha(outcomes, dt)
    \/ \E listing \in {<<>>, <<"f1">>, <<"f2", "f1">>}, files \in [Files -> CdrFiles],
          grew \in BOOLEAN, dt \in IsoDts :
          monitor_cdr(listing, files, grew, dt)

SpecIso == InitIso /\ [][NextIso]_vars

----------------------------------------------------------------------------
(* The configuration section of a monitor: monitor_cpu, monitor_cfg *)

\* cycles of one monitor in one behaviour
MaxCfgPolls == 3
CfgDts == {1, 5}
\* time.sleep(5) after "section missing in config.yaml"
MissingSectionDelay == 5

\* one iteration of the loop of monitor_cpu; present is whether config.yaml has
\* the section cpu_monitor, cur the status the CPU detection logic arrives at
monitor_cpu(present, cur, dt) ==
    /\ mon = "cpu"
    /\ proc.alive
    /\ npolls < MaxCfgPolls
    /\ npolls' = npolls + 1
    /\ last' = [e \in {"srv"} |-> [missing |-> ~present]]
    /\ IF ~present
       THEN /\ now' = now + MissingSectionDelay
            /\ UNCHANGED <<sink, sfile>>
       ELSE /\ now' = now + dt
            /\ SingleAlert(cur, now + dt)
    /\ UNCHANGED <<mon, cooldown, hist, mVars, aVars, scVars, pVars, stVars, mlVars, cVars, xVars>>

\* one iteration of the loop of monitor_cfg: config["cfg_monitor"] is a KeyError
\* without the section; cur is the status check_cfg_files arrives at
monitor_cfg(present, cur, dt) ==
    /\ mon = "cfg"
    /\ proc.alive
    /\ npolls < MaxCfgPolls
    /\ npolls' = npolls + 1
    /\ now' = now + dt
    /\ last' = [e \in {"srv"} |-> [missing |-> ~present]]
    /\ proc' = [proc EXCEPT !.alive = present]
    /\ IF ~present
       THEN UNCHANGED <<sink, sfile>>
       ELSE SingleAlert(cur, now + dt)
    /\ UNCHANGED <<mon, cooldown, hist, mVars, aVars, scVars, pVars, disk, loaded,
                   saving, mlVars, cVars, xVars>>

InitCfg ==
    /\ mon \in {"cpu", "cfg"}
    /\ InitCommon
    /\ IdleCall
    /\ IdleExtra
    /\ IdleMail /\ IdlePool
    /\ disk = NoDisk /\ loaded = NoLoad /\ saving = NoSave
    /\ proc = [alive |-> TRUE, ioerror |-> FALSE]
    /\ cooldown \in {0, 3}
    /\ sfile = NoFile
    /\ hist = <<>>
    /\ IdleEnt /\ IdleAgg /\ IdleScan

NextCfg ==
    \/ \E present \in BOOLEAN, cur \in Statuses, dt \in CfgDts :
          monitor_cpu(present, cur, dt)
    \/ \E present \in BOOLEAN, cur \in Statuses, dt \in CfgDts :
          monitor_cfg(present, cur, dt)

SpecCfg == InitCfg /\ [][NextCfg]_vars

----------------------------------------------------------------------------
(* External calls of a cycle: subprocess.run, os.system, psycopg2 *)

\* cycles of one monitor in one behaviour
MaxCallPolls == 3
CallDts == {1, 5}
\* ss7maint ips through subprocess.run, a service command through
\* subprocess.run, ping through os.system, psycopg2.connect, cursor.execute
CallKinds == {"ss7maint", "service", "ping", "dbconnect", "dbquery"}
\* connect_timeout=5
ConnectTimeout == 5

\* the timeout the code passes to the call: only psycopg2.connect gets one
CallTimeout(kind) == IF kind = "dbconnect" THEN ConnectTimeout ELSE None

\* the cycle reaches its external call; hangs is whether the process or server
\* at the other end never answers
StartCall(kind, hangs) ==
    /\ mon = "call"
    /\ call.pos = "idle"
    /\ npolls < MaxCallPolls
    /\ npolls' = npolls + 1
    /\ call' = [pos |-> "calling", kind |-> kind, hangs |-> hangs,
                timeout |-> CallTimeout(kind)]
    /\ UNCHANGED <<mon, now, sink, last, sVars, mVars, aVars, scVars, pVars, stVars,
                   mlVars, xVars>>

\* the call returns; cur is the status the cycle derives, and the cycle runs to
\* its end: alert logic, save_state, sleep
CallReturns(cur, dt) ==
    /\ mon = "call"
    /\ call.pos = "calling"
    /\ ~call.hangs
    /\ call' = [call EXCEPT !.pos = "idle"]
    /\ now' = now + dt
    /\ SingleAlert(cur, now + dt)
    /\ UNCHANGED <<mon, npolls, last, cooldown, hist, mVars, aVars, scVars, pVars,
                   stVars, mlVars, xVars>>

\* the timeout of the call expires: psycopg2.connect raises, the traffic check
\* returns False and the cycle is skipped
CallTimesOut(dt) ==
    /\ mon = "call"
    /\ call.pos = "calling"
    /\ call.hangs
    /\ call.timeout # None
    /\ call' = [call EXCEPT !.pos = "idle"]
    /\ now' = now + call.timeout + dt
    /\ UNCHANGED <<mon, npolls, sink, last, sVars, mVars, aVars, scVars, pVars, stVars,
                   mlVars, xVars>>

InitCall ==
    /\ mon = "call"
    /\ InitCommon
    /\ IdleMail /\ IdleStore /\ IdlePool /\ IdleCall /\ IdleExtra
    /\ cooldown \in {0, 3}
    /\ sfile = NoFile
    /\ hist = <<>>
    /\ IdleEnt /\ IdleAgg /\ IdleScan

NextCall ==
    \/ \E kind \in CallKinds, hangs \in BOOLEAN : StartCall(kind, hangs)
    \/ \E cur \in Statuses, dt \in CallDts : CallReturns(cur, dt)
    \/ \E dt \in CallDts : CallTimesOut(dt)

\* a call that answers returns, an expired timeout is raised
SpecCall == InitCall /\ [][NextCall]_vars /\ WF_vars(NextCall)

----------------------------------------------------------------------------
(* monitor_sip_error: the active log of an instance, its offset, its alerts *)

\* cycles of the monitor in one behaviour
MaxSipPolls == 2
\* length of a SIP log
MaxSipLen == 2
SipDts == {2}
\* the instance of sip_monitor.instances
SipInstance == "e1"
\* characters the SIP server writes: "a" stands for an error text
SipChars == {"a", "n"}
\* sip_monitor.match_patterns / ignore_patterns
SipMatch == {<<"a">>}
SipIgnore == {}
\* where the try block of read_new_errors raises: nowhere, at open() or the
\* first seek / tell, at seek(offset) / readlines() / tell()
ReadFaults == {"ok", "open", "read"}

\* a variant whose except branch reports the end of the file
read_new_errors_skip(data, offset, io) ==
    IF io = "ok"
    THEN [count |-> Filtered(ReadLines(ReadFrom(data, SeekOffset(offset, Len(data))), <<>>),
                             SipMatch, SipIgnore),
          new_offset |-> Len(data), from |-> SeekOffset(offset, Len(data))]
    ELSE [count |-> 0, new_offset |-> Len(data), from |-> offset]

\* read_new_errors(log_path, offset, match_patterns, ignore_patterns): the
\* except branch returns [], offset with the offset as it is by then
read_new_errors(data, offset, io) ==
    LET size == Len(data)
        off == SeekOffset(offset, size)
    IN  IF io = "open" THEN [count |-> 0, new_offset |-> offset, from |-> offset]
        ELSE IF io = "read" THEN [count |-> 0, new_offset |-> off, from |-> off]
        ELSE [count |-> Filtered(ReadLines(ReadFrom(data, off), <<>>), SipMatch, SipIgnore),
              new_offset |-> size, from |-> off]

\* a variant that takes the new file but keeps the offset
select_log_keep_offset(inst_state, log_path) == [inst_state EXCEPT !.file = log_path]

\* if inst_state.get("file") != log_path: offset = 0, file = log_path
select_log(inst_state, log_path) ==
    IF inst_state.file # log_path
    THEN [inst_state EXCEPT !.offset = 0, !.file = log_path]
    ELSE inst_state

\* the SIP server appends to one of its logs
SipWrite(f, c) ==
    /\ mon = "sip"
    /\ Len(content[f]) < MaxSipLen
    /\ content' = [content EXCEPT ![f] = Append(@, c)]
    /\ UNCHANGED <<comVars, sVars, mVars, aggCfg, counts, alerts, status, offs, scanlog,
                   scVars, pVars, stVars, mlVars, cVars, xVars>>

\* a log is emptied in place (the model does it to the older log only)
SipTruncate(f) ==
    /\ mon = "sip"
    /\ content[f] # <<>>
    /\ content' = [content EXCEPT ![f] = <<>>]
    /\ UNCHANGED <<comVars, sVars, mVars, aggCfg, counts, alerts, status, offs, scanlog,
                   scVars, pVars, stVars, mlVars, cVars, xVars>>

\* one iteration of monitor_sip_errors with the traffic check passed; active is
\* what get_active_sip_log returns ("none": no log of today), io how the read
\* of the log goes
monitor_sip_errors(active, io, dt) ==
    LET t == now + dt
        name == SipInstance
        had == name \in DOMAIN mfile
        inst0 == IF had THEN mfile[name]
                 ELSE [status |-> STATUS_OK, lat |-> None, offset |-> 0, file |-> active]
        inst1 == select_log(inst0, active)
        data == IF active = "none" THEN <<>> ELSE content[active]
        r == read_new_errors(data, inst1.offset, io)
        current_status == IF r.count > 0 THEN STATUS_FAIL ELSE STATUS_OK
        d == Debounce(inst1.status, inst1.lat, current_status, cooldown, t)
    IN  /\ mon = "sip"
        /\ npolls < MaxSipPolls
        /\ now' = t
        /\ npolls' = npolls + 1
        /\ IF active = "none"
           THEN /\ io = "ok"
                /\ last' = [e \in {name} |-> [skipped |-> TRUE]]
                /\ UNCHANGED <<mfile, sink>>
           ELSE /\ last' = [e \in {name} |->
                              [skipped |-> FALSE, had |-> had, prev |-> inst0,
                               active |-> active, io |-> io, data |-> data,
                               count |-> r.count, from |-> r.from,
                               alert |-> d.alert, t |-> t]]
                /\ mfile' = Put(mfile, name, [status |-> d.status, lat |-> d.lat,
                                               offset |-> r.new_offset, file |-> active])
                /\ sink' = IF d.alert = "none" THEN sink
                           ELSE Append(sink, [ent |-> name, kind |-> d.alert, t |-> t])
        /\ UNCHANGED <<mon, perCool, defCool, sVars, aVars, scVars, pVars, stVars,
                       mlVars, cVars, xVars>>

InitSip ==
    /\ mon = "sip"
    /\ InitCommon
    /\ IdleMail /\ IdleStore /\ IdlePool /\ IdleCall /\ IdleExtra
    /\ cooldown \in {0, 3}
    /\ sfile = NoFile
    /\ hist = <<>>
    /\ IdleEnt /\ IdleScan
    /\ aggCfg = NoPoll /\ counts = NoPoll /\ alerts = NoPoll /\ status = NoPoll
    /\ offs = NoPoll /\ scanlog = NoPoll
    /\ content = [f \in Files |-> <<>>]

NextSip ==
    \/ \E f \in Files, c \in SipChars : SipWrite(f, c)
    \/ SipTruncate("f1")
    \/ \E active \in Files \cup {"none"}, io \in ReadFaults, dt \in SipDts :
          monitor_sip_errors(active, io, dt)

SpecSip == InitSip /\ [][NextSip]_vars

----------------------------------------------------------------------------
(* monitor_trace: the mtime entries of state["files"], in the script of
   appserver_01_script(KEPONG) and in the one of appserver_01_script *)

\* cycles of the monitor in one behaviour
MaxTracePolls == 3
TraceDts == {2}
\* trace_monitor.max_idle_seconds
MaxIdle == 3
\* trace_monitor.trace_file_count
ExpectedFileCount == 2
\* how long ago a trace file was last written
FileAges == {0, 4}

\* file_state = {f: v for f, v in file_state.items() if os.path.exists(f)}
PruneFiles(file_state, exists) ==
    [f \in (DOMAIN file_state) \cap exists |-> file_state[f]]

\* the script of appserver_01_script has no such line
KeepFiles(file_state, exists) == file_state

\* for trace_file in matched_files, from the i-th file of the listing on: FAIL
\* and break at the first file seen before and idle for max_idle_seconds,
\* otherwise the file's mtime is recorded
RECURSIVE trace_loop(_, _, _, _, _)
trace_loop(i, acc, matched, mtime, t) ==
    IF i > Len(FileSeq) THEN acc
    ELSE LET trace_file == FileSeq[i]
         IN  IF trace_file \notin matched
             THEN trace_loop(i + 1, acc, matched, mtime, t)
             ELSE IF trace_file \in DOMAIN acc.files /\ t - mtime[trace_file] >= MaxIdle
             THEN [acc EXCEPT !.status = STATUS_FAIL]
             ELSE trace_loop(i + 1,
                     [acc EXCEPT !.files = Put(acc.files, trace_file, mtime[trace_file])],
                     matched, mtime, t)

\* one iteration of monitor_trace with the traffic check passed; exists are the
\* files on disk, matched those of them that glob finds for today, age how
\* long ago each was written
trace_iteration(variant, exists, matched, age, dt) ==
    LET t == now + dt
        mtime == [f \in Files |-> t - age[f]]
        file_state == IF variant = "kepong" THEN PruneFiles(offs, exists)
                      ELSE KeepFiles(offs, exists)
        start == [status |-> STATUS_OK, files |-> file_state]
        r == IF matched = {} THEN [start EXCEPT !.status = STATUS_FAIL]
             ELSE IF variant = "kepong" /\ Cardinality(matched) < ExpectedFileCount
             THEN [start EXCEPT !.status = STATUS_FAIL]
             ELSE trace_loop(1, start, matched, mtime, t)
        state == load_state(sfile)
        d == Debounce(state.status, state.lat, r.status, cooldown, t)
    IN  /\ mon = variant
        /\ npolls < MaxTracePolls
        /\ now' = t
        /\ npolls' = npolls + 1
        /\ offs' = r.files
        /\ sfile' = save_state([status |-> d.status, lat |-> d.lat])
        /\ sink' = IF d.alert = "none" THEN sink
                   ELSE Append(sink, [ent |-> "srv", kind |-> d.alert, t |-> t])
        /\ last' = [e \in {"srv"} |-> [exists |-> exists, matched |-> matched]]
        /\ UNCHANGED <<mon, cooldown, hist, mVars, aggCfg, counts, alerts, status, content,
                       scanlog, scVars, pVars, stVars, mlVars, cVars, xVars>>

\* monitor_trace of appserver_01_script(KEPONG)
monitor_trace_kepong(exists, matched, age, dt) ==
    trace_iteration("kepong", exists, matched, age, dt)

\* monitor_trace of appserver_01_script
monitor_trace_app(exists, matched, age, dt) ==
    trace_iteration("app01", exists, matched, age, dt)

InitTrace ==
    /\ mon \in {"kepong", "app01"}
    /\ InitCommon
    /\ IdleMail /\ IdleStore /\ IdlePool /\ IdleCall /\ IdleExtra
    /\ cooldown \in {0, 3}
    /\ sfile = NoFile
    /\ hist = <<>>
    /\ IdleEnt /\ IdleScan
    /\ aggCfg = NoPoll /\ counts = NoPoll /\ alerts = NoPoll /\ status = NoPoll
    /\ offs = NoPoll /\ scanlog = NoPoll /\ content = NoPoll

NextTrace ==
    \/ \E exists \in SUBSET Files, age \in [Files -> FileAges], dt \in TraceDts :
          \E matched \in SUBSET exists : monitor_trace_kepong(exists, matched, age, dt)
    \/ \E exists \in SUBSET Files, age \in [Files -> FileAges], dt \in TraceDts :
          \E matched \in SUBSET exists : monitor_trace_app(exists, matched, age, dt)

SpecTrace == InitTrace /\ [][NextTrace]_vars

----------------------------------------------------------------------------
(* The CPU detection logic of monitor_cpu and the restart of the script *)

\* iterations of the loop in one behaviour
MaxCpuPolls == 4
\* restarts of the script in one behaviour
MaxCpuRestarts == 1
CpuDts == {1, 3}
\* psutil.cpu_times_percent(interval=1).user
CpuUsages == {50, 80, 95}
\* cpu_monitor.threshold and cpu_monitor.monitor_duration of config.yaml
CpuThresholds == {80}
MonitorDurations == {0, 3}

\* a mutation of next_high_cpu_start: a sample at or below the threshold does
\* not reset the start time
next_high_cpu_start_sticky(cpu_usage, cpu_threshold, high_cpu_start, t) ==
    IF cpu_usage > cpu_threshold /\ high_cpu_start = None THEN t ELSE high_cpu_start

\* if cpu_usage > cpu_threshold: if high_cpu_start is None: high_cpu_start = now
\* else: high_cpu_start = None
next_high_cpu_start(cpu_usage, cpu_threshold, high_cpu_start, t) ==
    IF cpu_usage > cpu_threshold
    THEN IF high_cpu_start = None THEN t ELSE high_cpu_start
    ELSE None

\* if high_cpu_start and (now - high_cpu_start) >= monitor_duration
cpu_status(high_cpu_start, t, monitor_duration) ==
    IF high_cpu_start # None /\ high_cpu_start # 0
       /\ (t - high_cpu_start) >= monitor_duration
    THEN STATUS_FAIL
    ELSE STATUS_OK

\* one iteration of the while loop of monitor_cpu with the section present
cpu_iteration(cpu_usage, dt) ==
    LET t == now + dt
        start == next_high_cpu_start(cpu_usage, cpu.threshold, cpu.high_cpu_start, t)
        current_status == cpu_status(start, t, cpu.duration)
    IN  /\ mon = "cpuload"
        /\ npolls < MaxCpuPolls
        /\ npolls' = npolls + 1
        /\ now' = t
        /\ cpu' = [cpu EXCEPT !.high_cpu_start = start,
                              !.samples = Append(@, [t |-> t, usage |-> cpu_usage,
                                                     status |-> current_status,
                                                     gen |-> cpu.gen])]
        /\ last' = [e \in {"srv"} |-> [usage |-> cpu_usage, status |-> current_status]]
        /\ SingleAlert(current_status, t)
        /\ UNCHANGED <<mon, cooldown, hist, mVars, aVars, scVars, pVars, stVars, mlVars,
                       cVars, pidfile, runners, children, smpplog>>

\* the script exits and main_runner starts it again: monitor_cpu() begins with
\* high_cpu_start = None, the state file is as it was
restart_cpu ==
    /\ mon = "cpuload"
    /\ cpu.gen < MaxCpuRestarts
    /\ cpu' = [cpu EXCEPT !.high_cpu_start = None, !.gen = @ + 1, !.restarted = TRUE]
    /\ UNCHANGED <<comVars, sVars, mVars, aVars, scVars, pVars, stVars, mlVars, cVars,
                   pidfile, runners, children, smpplog>>

InitCpu ==
    /\ mon = "cpuload"
    /\ InitCommon
    /\ IdleMail /\ IdleStore /\ IdlePool /\ IdleCall
    /\ cooldown \in {0, 3}
    /\ sfile = NoFile
    /\ hist = <<>>
    /\ IdleEnt /\ IdleAgg /\ IdleScan
    /\ \E th \in CpuThresholds, d \in MonitorDurations :
          cpu = [NoCpu EXCEPT !.threshold = th, !.duration = d]
    /\ pidfile = None /\ runners = <<>> /\ children = <<>> /\ smpplog = <<>>

NextCpu ==
    \/ \E cpu_usage \in CpuUsages, dt \in CpuDts : cpu_iteration(cpu_usage, dt)
    \/ restart_cpu

SpecCpu == InitCpu /\ [][NextCpu]_vars

----------------------------------------------------------------------------
(* monitor_services: a check interval per service *)

\* iterations of the loop in one behaviour
MaxSvcPolls == 3
\* service_monitor.check_interval_seconds, the sleep of the loop
SvcDts == {1, 3}
\* check_interval_seconds and cooldown_seconds of the services
SvcIntervals == {0, 3, 5}
SvcCooldowns == {0, 4}

\* state.get(name, {"status": STATUS_OK, "last_check_time": 0, "last_alert_time": None})
get_svc_state(state, name) ==
    IF name \in DOMAIN state THEN state[name]
    ELSE [status |-> STATUS_OK, last_check_time |-> 0, lat |-> None]

\* a mutation of check_due: every service is probed on every poll
check_due_always(t, last_check_time, interval) == TRUE

\* not (now - svc_state["last_check_time"] < interval)
check_due(t, last_check_time, interval) == ~(t - last_check_time < interval)

\* the for loop of monitor_services from the i-th service on; acc carries the
\* state dict, the mails sent and, per service, whether it was probed
RECURSIVE services_loop(_, _, _, _)
services_loop(i, acc, running, t) ==
    IF i > Len(EntSeq) THEN acc
    ELSE LET name == EntSeq[i]
             interval == aggCfg[name].interval
             cd == aggCfg[name].cooldown
             svc_state == get_svc_state(acc.state, name)
             current_status == IF running[name] THEN STATUS_OK ELSE STATUS_FAIL
             d == Debounce(svc_state.status, svc_state.lat, current_status, cd, t)
         IN  IF ~check_due(t, svc_state.last_check_time, interval)
             THEN services_loop(i + 1,
                     [acc EXCEPT !.last = Put(acc.last, name, [probed |-> FALSE, t |-> t])],
                     running, t)
             ELSE services_loop(i + 1,
                     [state |-> Put(acc.state, name,
                                    [status |-> d.status, last_check_time |-> t,
                                     lat |-> d.lat]),
                      sink |-> IF d.alert = "none" THEN acc.sink
                               ELSE Append(acc.sink, [ent |-> name, kind |-> d.alert, t |-> t]),
                      last |-> Put(acc.last, name, [probed |-> TRUE, t |-> t])],
                     running, t)

\* one iteration of the while loop of monitor_services: load_state, the loop
\* over the services, save_state, time.sleep(loop_interval)
monitor_services(running, dt) ==
    LET t == now + dt
        r == services_loop(1, [state |-> mfile, sink |-> sink, last |-> NoPoll], running, t)
    IN  /\ mon = "services"
        /\ npolls < MaxSvcPolls
        /\ now' = t
        /\ npolls' = npolls + 1
        /\ mfile' = r.state
        /\ sink' = r.sink
        /\ last' = r.last
        /\ UNCHANGED <<mon, perCool, defCool, sVars, aVars, scVars, pVars, stVars, mlVars,
                       cVars, xVars>>

InitSvc ==
    /\ mon = "services"
    /\ InitCommon
    /\ IdleMail /\ IdleStore /\ IdlePool /\ IdleCall /\ IdleExtra
    /\ aggCfg \in {[e \in Entities |-> [interval |-> IF e = "e1" THEN i ELSE 5,
                                        cooldown |-> c]] :
                      i \in SvcIntervals, c \in SvcCooldowns}
    /\ counts = NoPoll /\ alerts = NoPoll /\ status = NoPoll
    /\ offs = NoPoll /\ content = NoPoll /\ scanlog = NoPoll
    /\ perCool = NoPoll /\ defCool = 0
    /\ mfile = NoPoll
    /\ IdleSingle /\ IdleScan

NextSvc == \E running \in [Entities -> BOOLEAN], dt \in SvcDts : monitor_services(running, dt)

SpecSvc == InitSvc /\ [][NextSvc]_vars

----------------------------------------------------------------------------
(* monitor_smpp_error: the error count of the whole log of an instance *)

\* iterations of the loop in one behaviour
MaxSmppPolls == 3
\* lines of one log file
MaxSmppLen == 2
SmppDts == {2}
\* a line with a match pattern, one with a match and an ignore pattern, one
\* with neither
SmppLines == {<<"a", "n">>, <<"a", "b", "n">>, <<"b", "n">>}
\* smpp_monitor.match_patterns and ignore_patterns
SmppMatch == {<<"a">>}
SmppIgnore == {<<"b">>}
NoLog == [exists |-> FALSE, lines |-> <<>>]
\* the instance whose log changes during a behaviour
SmppWriter == "e1"

\* read_error_lines: the number of lines it returns; [] when open or the
\* iteration over the file raises
read_error_lines(log, io, match_patterns, ignore_patterns) ==
    IF io # "ok" THEN 0 ELSE Filtered(log.lines, match_patterns, ignore_patterns)

\* a mutation of smpp_status: any change of the count is unhealthy
smpp_status_changed(new_count, old_count) ==
    IF new_count # old_count THEN STATUS_FAIL ELSE STATUS_OK

\* if new_count > old_count: current_status = STATUS_FAIL else STATUS_OK
smpp_status(new_count, old_count) ==
    IF new_count > old_count THEN STATUS_FAIL ELSE STATUS_OK

\* state.get(name, {"status": STATUS_OK, "last_alert_time": None, "error_count": 0})
get_inst_state(state, name) ==
    IF name \in DOMAIN state THEN state[name]
    ELSE [status |-> STATUS_OK, lat |-> None, error_count |-> 0]

\* the for loop over the instances from the i-th on
RECURSIVE smpp_loop(_, _, _, _)
smpp_loop(i, acc, io, t) ==
    IF i > Len(EntSeq) THEN acc
    ELSE LET name == EntSeq[i]
             inst_state == get_inst_state(acc.state, name)
             old_count == inst_state.error_count
             new_count == read_error_lines(smpplog[name], io[name], SmppMatch, SmppIgnore)
             current_status == smpp_status(new_count, old_count)
             d == Debounce(inst_state.status, inst_state.lat, current_status, cooldown, t)
         IN  IF ~smpplog[name].exists
             THEN smpp_loop(i + 1,
                     [acc EXCEPT !.last = Put(acc.last, name, [polled |-> FALSE])], io, t)
             ELSE smpp_loop(i + 1,
                     [state |-> Put(acc.state, name,
                                    [status |-> d.status, lat |-> d.lat,
                                     error_count |-> new_count]),
                      sink |-> IF d.alert = "none" THEN acc.sink
                               ELSE Append(acc.sink, [ent |-> name, kind |-> d.alert, t |-> t]),
                      last |-> Put(acc.last, name,
                                   [polled |-> TRUE, io |-> io[name], old_count |-> old_count,
                                    sig |-> current_status, alert |-> d.alert])],
                     io, t)

\* one iteration of the while loop of monitor_smpp_errors with the section
\* present; active is what is_smpp_traffic_active returns
monitor_smpp_errors(active, io, dt) ==
    LET t == now + dt
        r == smpp_loop(1, [state |-> mfile, sink |-> sink, last |-> NoPoll], io, t)
    IN  /\ mon = "smpp"
        /\ npolls < MaxSmppPolls
        /\ now' = t
        /\ npolls' = npolls + 1
        /\ IF ~active
           THEN /\ last' = [e \in Entities |-> [polled |-> FALSE]]
                /\ UNCHANGED <<mfile, sink>>
           ELSE /\ mfile' = r.state
                /\ sink' = r.sink
                /\ last' = r.last
        /\ UNCHANGED <<mon, perCool, defCool, sVars, aVars, scVars, pVars, stVars, mlVars,
                       cVars, xVars>>

\* the SMPP instance writes a line to its log
SmppWrite(name, line) ==
    /\ mon = "smpp"
    /\ Len(smpplog[name].lines) < MaxSmppLen
    /\ smpplog' = [smpplog EXCEPT ![name] = [exists |-> TRUE, lines |-> Append(@.lines, line)]]
    /\ UNCHANGED <<comVars, sVars, mVars, aVars, scVars, pVars, stVars, mlVars, cVars,
                   cpu, pidfile, runners, children>>

\* the log is rotated: the path names a new, empty file
SmppRotate(name) ==
    /\ mon = "smpp"
    /\ smpplog[name].lines # <<>>
    /\ smpplog' = [smpplog EXCEPT ![name] = [exists |-> TRUE, lines |-> <<>>]]
    /\ UNCHANGED <<comVars, sVars, mVars, aVars, scVars, pVars, stVars, mlVars, cVars,
                   cpu, pidfile, runners, children>>

InitSmpp ==
    /\ mon = "smpp"
    /\ InitCommon
    /\ IdleMail /\ IdleStore /\ IdlePool /\ IdleCall
    /\ cpu = NoCpu /\ pidfile = None /\ runners = <<>> /\ children = <<>>
    /\ \E l1 \in {NoLog} \cup {[exists |-> TRUE, lines |-> <<l>>] : l \in SmppLines},
          l2 \in {NoLog, [exists |-> TRUE, lines |-> <<<<"a", "n">>>>]} :
          smpplog = [e \in Entities |-> IF e = SmppWriter THEN l1 ELSE l2]
    /\ cooldown \in {0, 3}
    /\ sfile = NoFile
    /\ hist = <<>>
    /\ IdleEnt /\ IdleAgg /\ IdleScan

NextSmpp ==
    \/ \E active \in BOOLEAN, io \in [Entities -> {"ok", "fail"}], dt \in SmppDts :
          monitor_smpp_errors(active, io, dt)
    \/ \E line \in SmppLines : SmppWrite(SmppWriter, line)
    \/ SmppRotate(SmppWriter)

SpecSmpp == InitSmpp /\ [][NextSmpp]_vars

----------------------------------------------------------------------------
(* main_runner: the PID file, the children, the signal handler *)

\* the main_runner processes started in one behaviour, by PID
Runners == {1, 2}
\* monitor_scripts, two of the three
monitor_scripts == <<"monitor_cpu", "monitor_storage">>
\* children started in one behaviour
MaxChildren == 3
\* cycles of the main loop of one runner
MaxCycles == 2

NoRunner == [pc |-> "new", i |-> 1, running_processes |-> NoPoll, pending |-> 0,
             how |-> "none", cycles |-> 0]

\* os.path.exists(f"/proc/{old_pid}")
ProcExists(pid) == pid \in DOMAIN runners /\ runners[pid].pc \notin {"new", "exited"}

\* the runner is past check_existing_instance and has not exited
Past(p) == runners[p].pc \in {"orphans", "start", "record", "loop"}

\* the child with index c is killed, or ends, in the way by
Ended(ch, c, by) == [ch EXCEPT ![c] = [@ EXCEPT !.alive = FALSE, !.by = by]]

\* the for loop of stop_all over running_processes.items(), from the i-th
\* script on: killpg of a live child, an error logged for one that is gone
RECURSIVE stop_loop(_, _, _)
stop_loop(i, rp, ch) ==
    IF i > Len(monitor_scripts) THEN ch
    ELSE LET name == monitor_scripts[i]
         IN  IF name \notin DOMAIN rp THEN stop_loop(i + 1, rp, ch)
             ELSE IF ch[rp[name]].alive
                  THEN stop_loop(i + 1, rp, Ended(ch, rp[name], "stop_all"))
                  ELSE stop_loop(i + 1, rp, ch)

\* PR_SET_PDEATHSIG: the kernel sends SIGKILL to the children of p alive when
\* p ends
pdeathsig(p, ch) ==
    [c \in DOMAIN ch |-> IF ch[c].parent = p /\ ch[c].alive
                         THEN [ch[c] EXCEPT !.alive = FALSE, !.by = "pdeathsig"]
                         ELSE ch[c]]

\* python3 main_runner.py: the module is loaded, the handlers are installed
Launch(p) ==
    /\ mon = "runner"
    /\ runners[p].pc = "new"
    /\ runners' = [runners EXCEPT ![p].pc = "check"]
    /\ UNCHANGED <<comVars, sVars, mVars, aVars, scVars, pVars, stVars, mlVars, cVars,
                   cpu, pidfile, children, smpplog>>

\* check_existing_instance up to the write: exit when the PID file names a
\* live process, remove a stale file
CheckExisting(p) ==
    /\ mon = "runner"
    /\ runners[p].pc = "check"
    /\ IF pidfile # None /\ ProcExists(pidfile)
       THEN /\ runners' = [runners EXCEPT ![p].pc = "exited", ![p].how = "already running"]
            /\ UNCHANGED pidfile
       ELSE /\ runners' = [runners EXCEPT ![p].pc = "write"]
            /\ pidfile' = None
    /\ UNCHANGED <<comVars, sVars, mVars, aVars, scVars, pVars, stVars, mlVars, cVars,
                   cpu, children, smpplog>>

\* with open(PID_FILE, "w") as f: f.write(str(os.getpid()))
WritePid(p) ==
    /\ mon = "runner"
    /\ runners[p].pc = "write"
    /\ pidfile' = p
    /\ runners' = [runners EXCEPT ![p].pc = "orphans"]
    /\ UNCHANGED <<comVars, sVars, mVars, aVars, scVars, pVars, stVars, mlVars, cVars,
                   cpu, children, smpplog>>

\* kill_existing_monitors: SIGKILL to every process pgrep finds for a script
kill_existing_monitors(p) ==
    /\ mon = "runner"
    /\ runners[p].pc = "orphans"
    /\ children' = [c \in DOMAIN children |->
                       IF children[c].alive
                       THEN [children[c] EXCEPT !.alive = FALSE, !.by = "orphan"]
                       ELSE children[c]]
    /\ runners' = [runners EXCEPT ![p].pc = "start", ![p].i = 1]
    /\ UNCHANGED <<comVars, sVars, mVars, aVars, scVars, pVars, stVars, mlVars, cVars,
                   cpu, pidfile, smpplog>>

\* start_script up to the return of subprocess.Popen; ok is FALSE when the
\* script is not there or Popen raises
Popen(p, ok) ==
    /\ mon = "runner"
    /\ runners[p].pc = "start"
    /\ runners[p].i <= Len(monitor_scripts)
    /\ ok => Len(children) < MaxChildren
    /\ IF ok
       THEN /\ children' = Append(children, [script |-> monitor_scripts[runners[p].i],
                                             parent |-> p, alive |-> TRUE,
                                             recorded |-> FALSE, by |-> "none"])
            /\ runners' = [runners EXCEPT ![p].pc = "record",
                                          ![p].pending = Len(children) + 1]
       ELSE /\ runners' = [runners EXCEPT ![p].i = @ + 1]
            /\ UNCHANGED children
    /\ UNCHANGED <<comVars, sVars, mVars, aVars, scVars, pVars, stVars, mlVars, cVars,
                   cpu, pidfile, smpplog>>

\* running_processes[script_name] = process
Record(p) ==
    /\ mon = "runner"
    /\ runners[p].pc = "record"
    /\ children' = [children EXCEPT ![runners[p].pending].recorded = TRUE]
    /\ runners' = [runners EXCEPT
                      ![p].running_processes =
                          Put(@, monitor_scripts[runners[p].i], runners[p].pending),
                      ![p].pending = 0,
                      ![p].i = @ + 1,
                      ![p].pc = "start"]
    /\ UNCHANGED <<comVars, sVars, mVars, aVars, scVars, pVars, stVars, mlVars, cVars,
                   cpu, pidfile, smpplog>>

\* the for loop of main over monitor_scripts is through
EnterLoop(p) ==
    /\ mon = "runner"
    /\ runners[p].pc = "start"
    /\ runners[p].i > Len(monitor_scripts)
    /\ runners' = [runners EXCEPT ![p].pc = "loop"]
    /\ UNCHANGED <<comVars, sVars, mVars, aVars, scVars, pVars, stVars, mlVars, cVars,
                   cpu, pidfile, children, smpplog>>

\* the for loop of one cycle of main over list(running_processes.items()),
\* from the i-th script on: a process that has exited is started again
RECURSIVE cycle_loop(_, _, _, _)
cycle_loop(i, acc, p, ok) ==
    IF i > Len(monitor_scripts) THEN acc
    ELSE LET name == monitor_scripts[i]
             n == Len(acc.children) + 1
         IN  IF name \notin DOMAIN acc.rp \/ acc.children[acc.rp[name]].alive
             THEN cycle_loop(i + 1, acc, p, ok)
             ELSE IF ok[name] /\ n <= MaxChildren
                  THEN cycle_loop(i + 1,
                          [rp |-> Put(acc.rp, name, n),
                           children |-> Append(acc.children,
                                           [script |-> name, parent |-> p, alive |-> TRUE,
                                            recorded |-> TRUE, by |-> "none"]),
                           attempted |-> acc.attempted \cup {name}],
                          p, ok)
                  ELSE cycle_loop(i + 1,
                          [acc EXCEPT !.attempted = @ \cup {name}], p, ok)

\* the scripts of monitor_scripts without a live process in running_processes
NotRunning(rp, ch) ==
    {monitor_scripts[i] : i \in 1..Len(monitor_scripts)}
        \ {name \in DOMAIN rp : ch[rp[name]].alive}

\* one cycle of the while loop of main, time.sleep(CHECK_INTERVAL) included
LoopCycle(p, ok) ==
    LET r == cycle_loop(1, [rp |-> runners[p].running_processes, children |-> children,
                            attempted |-> {}], p, ok)
    IN  /\ mon = "runner"
        /\ runners[p].pc = "loop"
        /\ runners[p].cycles < MaxCycles
        /\ runners' = [runners EXCEPT ![p].running_processes = r.rp, ![p].cycles = @ + 1]
        /\ children' = r.children
        /\ last' = [e \in {"cycle"} |->
                      [runner |-> p,
                       not_running |-> NotRunning(runners[p].running_processes, children),
                       attempted |-> r.attempted]]
        /\ UNCHANGED <<mon, now, npolls, sink, sVars, mVars, aVars, scVars, pVars, stVars,
                       mlVars, cVars, cpu, pidfile, smpplog>>

\* a monitor script ends by itself
ChildExits(c) ==
    /\ mon = "runner"
    /\ c \in DOMAIN children
    /\ children[c].alive
    /\ children' = Ended(children, c, "exit")
    /\ UNCHANGED <<comVars, sVars, mVars, aVars, scVars, pVars, stVars, mlVars, cVars,
                   cpu, pidfile, runners, smpplog>>

\* SIGTERM or SIGINT reaches runner p: signal_handler runs stop_all and
\* sys.exit(0), and the kernel deals with the children still alive
signal_handler(p) ==
    /\ mon = "runner"
    /\ runners[p].pc \notin {"new", "exited"}
    /\ children' = pdeathsig(p, stop_loop(1, runners[p].running_processes, children))
    /\ pidfile' = None
    /\ runners' = [runners EXCEPT ![p].pc = "exited", ![p].how = "signal"]
    /\ UNCHANGED <<comVars, sVars, mVars, aVars, scVars, pVars, stVars, mlVars, cVars,
                   cpu, smpplog>>

InitRunner ==
    /\ mon = "runner"
    /\ InitCommon
    /\ IdleMail /\ IdleStore /\ IdlePool /\ IdleCall
    /\ IdleSingle /\ IdleEnt /\ IdleAgg /\ IdleScan
    /\ cpu = NoCpu /\ smpplog = <<>>
    /\ pidfile = None
    /\ runners = [p \in Runners |-> NoRunner]
    /\ children = <<>>

NextRunner ==
    \/ \E p \in Runners : Launch(p)
    \/ \E p \in Runners : CheckExisting(p)
    \/ \E p \in Runners : WritePid(p)
    \/ \E p \in Runners : kill_existing_monitors(p)
    \/ \E p \in Runners, ok \in BOOLEAN : Popen(p, ok)
    \/ \E p \in Runners : Record(p)
    \/ \E p \in Runners : EnterLoop(p)
    \/ \E p \in Runners, ok \in [{"monitor_cpu", "monitor_storage"} -> BOOLEAN] :
          LoopCycle(p, ok)
    \/ \E c \in 1..MaxChildren : ChildExits(c)
    \/ \E p \in Runners : signal_handler(p)

SpecRunner == InitRunner /\ [][NextRunner]_vars

----------------------------------------------------------------------------
(* send_report: wait_for_complete_file *)

\* calls of wait_for_complete_file in one behaviour
MaxWaits == 1
\* iterations of its loop whose observation of the file is drawn
MaxSamples == 3
\* time.sleep(5); elapsed_time += 5
WaitStep == 5
\* values of the timeout parameter
WaitTimeouts == {0, 7, 10, 15}
\* what one iteration finds: no file, a file of some size, or a file that is
\* gone between os.path.exists and os.path.getsize
FileObs == {[exists |-> FALSE, raises |-> FALSE, size |-> 0]}
              \cup {[exists |-> TRUE, raises |-> FALSE, size |-> s] : s \in {0, 1, 2}}
              \cup {[exists |-> TRUE, raises |-> TRUE, size |-> 0]}

\* a mutation of wait_for_complete_file: the file is complete as soon as it
\* exists
wait_for_complete_file_exists(obs, timeout) ==
    IF 0 < timeout /\ obs[1].exists
    THEN [result |-> "True", samples |-> 1, iterations |-> 1]
    ELSE [result |-> "False", samples |-> 0, iterations |-> 0]

\* the while loop of wait_for_complete_file before its iteration k, with n
\* sizes sampled so far
RECURSIVE wait_loop(_, _, _, _, _, _)
wait_loop(elapsed_time, prev_size, k, n, obs, timeout) ==
    IF ~(elapsed_time < timeout)
    THEN [result |-> "False", samples |-> n, iterations |-> k - 1]
    ELSE IF obs[k].exists
         THEN IF obs[k].raises
              THEN [result |-> "raised", samples |-> n, iterations |-> k]
              ELSE IF obs[k].size = prev_size
                   THEN [result |-> "True", samples |-> n + 1, iterations |-> k]
                   ELSE wait_loop(elapsed_time + WaitStep, obs[k].size, k + 1, n + 1,
                                  obs, timeout)
         ELSE wait_loop(elapsed_time + WaitStep, prev_size, k + 1, n, obs, timeout)

\* prev_size = -1; elapsed_time = 0; while elapsed_time < timeout: ...
wait_for_complete_file(obs, timeout) == wait_loop(0, -1, 1, 0, obs, timeout)

\* send_email_with_retry up to the return of wait_for_complete_file
WaitForFile(obs, timeout) ==
    /\ mon = "wait"
    /\ npolls < MaxWaits
    /\ npolls' = npolls + 1
    /\ last' = [e \in {"wait"} |->
                  [obs |-> obs, timeout |-> timeout,
                   ret |-> wait_for_complete_file(obs, timeout)]]
    /\ UNCHANGED <<mon, now, sink, sVars, mVars, aVars, scVars, pVars, stVars, mlVars,
                   cVars, xVars>>

InitWait ==
    /\ mon = "wait"
    /\ InitCommon
    /\ IdleMail /\ IdleStore /\ IdlePool /\ IdleCall /\ IdleExtra
    /\ IdleSingle /\ IdleEnt /\ IdleAgg /\ IdleScan

NextWait ==
    \E obs \in [1..MaxSamples -> FileObs], timeout \in WaitTimeouts : WaitForFile(obs, timeout)

SpecWait == InitWait /\ [][NextWait]_vars

----------------------------------------------------------------------------
(* Properties *)

\* alerts of entity e handed to the sink so far
SinkOf(e) == SelectSeq(sink, LAMBDA a : a.ent = e)

\* number of alerts of kind k in a sequence of alerts
RECURSIVE CountKind(_, _)
CountKind(s, k) ==
    IF s = <<>> THEN 0
    ELSE (IF s[Len(s)].kind = k THEN 1 ELSE 0) + CountKind(SubSeq(s, 1, Len(s) - 1), k)

\* the transition table of the alert debouncer (spec section 4.2)
Table(previous, lat, signal, cd, t) ==
    CASE previous = STATUS_OK /\ signal = STATUS_OK ->
            [status |-> STATUS_OK, alert |-> "none", lat |-> lat]
      [] previous = STATUS_OK /\ signal = STATUS_FAIL ->
            [status |-> STATUS_FAIL, alert |-> "detected", lat |-> t]
      [] previous = STATUS_FAIL /\ signal = STATUS_FAIL /\ lat # None /\ t - lat < cd ->
            [status |-> STATUS_FAIL, alert |-> "none", lat |-> lat]
      [] previous = STATUS_FAIL /\ signal = STATUS_FAIL /\ (lat = None \/ t - lat >= cd) ->
            [status |-> STATUS_FAIL, alert |-> "still failing", lat |-> t]
      [] previous = STATUS_FAIL /\ signal = STATUS_OK ->
            [status |-> STATUS_OK, alert |-> "resolved", lat |-> None]

\* the first k polls of the single-entity monitor are those of the scenario:
\* unhealthy at t1, unhealthy at t1+5, unhealthy at t1+31, healthy
ScenarioPolls(k) ==
    /\ mon = "single"
    /\ cooldown = 30
    /\ Len(hist) = k
    /\ k >= 1 => hist[1].sig = STATUS_FAIL
    /\ k >= 2 => hist[2] = [sig |-> STATUS_FAIL, t |-> hist[1].t + 5]
    /\ k >= 3 => hist[3] = [sig |-> STATUS_FAIL, t |-> hist[1].t + 31]
    /\ k >= 4 => hist[4].sig = STATUS_OK

Alert(e, k, t) == [ent |-> e, kind |-> k, t |-> t]

\* C2: from no state file, with cooldown 30: the poll at t1 (unhealthy) sends
\* "detected" and persists (FAIL, t1); the poll at t1+5 (unhealthy) sends
\* nothing and keeps last_alert_time = t1; the poll at t1+31 (unhealthy) sends
\* "still failing" and persists last_alert_time = t1+31; the healthy poll that
\* follows sends "resolved" and persists (OK, null).
C2_EndToEnd ==
    /\ ScenarioPolls(1) =>
          /\ sink = <<Alert("srv", "detected", hist[1].t)>>
          /\ sfile = [exists |-> TRUE, status |-> STATUS_FAIL, lat |-> hist[1].t]
    /\ ScenarioPolls(2) =>
          /\ sink = <<Alert("srv", "detected", hist[1].t)>>
          /\ sfile = [exists |-> TRUE, status |-> STATUS_FAIL, lat |-> hist[1].t]
    /\ ScenarioPolls(3) =>
          /\ sink = <<Alert("srv", "detected", hist[1].t),
                      Alert("srv", "still failing", hist[1].t + 31)>>
          /\ sfile = [exists |-> TRUE, status |-> STATUS_FAIL, lat |-> hist[1].t + 31]
    /\ ScenarioPolls(4) =>
          /\ sink = <<Alert("srv", "detected", hist[1].t),
                      Alert("srv", "still failing", hist[1].t + 31),
                      Alert("srv", "resolved", hist[4].t)>>
          /\ sfile = [exists |-> TRUE, status |-> STATUS_OK, lat |-> None]

\* the four polls of the scenario have run
C2_Witness == ScenarioPolls(4) /\ Len(sink) = 3

\* C3: a step hands one more "detected" alert of an entity to the sink exactly
\* when the persisted status of that entity goes from OK to FAIL in that step,
\* and one more "resolved" alert exactly when it goes from FAIL to OK, also
\* when the monitor is killed inside the poll and started again.
C3_ExactlyOncePerTransition ==
    [][ /\ CountKind(sink', "detected") - CountKind(sink, "detected") =
              (IF load_state(sfile).status = STATUS_OK
                  /\ load_state(sfile').status = STATUS_FAIL THEN 1 ELSE 0)
        /\ CountKind(sink', "resolved") - CountKind(sink, "resolved") =
              (IF load_state(sfile).status = STATUS_FAIL
                  /\ load_state(sfile').status = STATUS_OK THEN 1 ELSE 0) ]_vars

\* index of the latest "detected" alert in the sink, 0 when there is none
RECURSIVE LastDetected(_)
LastDetected(s) ==
    IF s = <<>> THEN 0
    ELSE IF s[Len(s)].kind = "detected" THEN Len(s)
    ELSE LastDetected(SubSeq(s, 1, Len(s) - 1))

\* alerts of the current fault episode, the "detected" one included
EpisodeAlerts == Len(sink) - LastDetected(sink) + 1
\* seconds from the "detected" alert of the current episode to the latest poll
EpisodeT == now - sink[LastDetected(sink)].t

InEpisode ==
    /\ mon = "single"
    /\ sfile.exists /\ sfile.status = STATUS_FAIL
    /\ cooldown > 0

Ents ==
    CASE mon \in {"single", "mail"} -> {"srv"}
      [] mon \in {"jar", "storage"} -> Entities
      [] mon \in {"voice", "mailvoice"} -> Labels
      [] mon = "app" -> Files \X Labels
      [] OTHER -> {}

\* the persisted record of entity e as the next poll reads it
RecOf(e) ==
    CASE mon \in {"single", "mail"} -> load_state(sfile)
      [] mon \in {"jar", "storage"} -> get_state(mfile, e)
      [] OTHER -> [status |-> Get(status, e, STATUS_OK), lat |-> Get(alerts, e, None)]

\* C1: every poll that feeds a signal to the alert logic of an entity ends with
\* the status, the alert and the last_alert_time of the debouncer table.
C1_MatchesTable ==
    \A e \in DOMAIN last :
        Table(last[e].prev_status, last[e].prev_lat, last[e].sig, last[e].cd, last[e].t)
            = [status |-> last[e].status, alert |-> last[e].alert, lat |-> last[e].lat]

\* C4: a persisted last_alert_time (in the aggregators: the key's entry of
\* state["alerts"]) is non-null only with status FAIL, and a poll makes it
\* null exactly when it moves the entity from FAIL to OK.
C4_LatOnlyWhileFail ==
    [][ \A e \in Ents :
          /\ RecOf(e)'.lat # None => RecOf(e)'.status = STATUS_FAIL
          /\ (RecOf(e).lat # None /\ RecOf(e)'.lat = None)
                <=> (RecOf(e).status = STATUS_FAIL /\ RecOf(e)'.status = STATUS_OK) ]_vars

\* a poll of the per-file aggregator resolved a key and removed its alert time
C4_Witness ==
    /\ mon = "app"
    /\ \E k \in DOMAIN last :
          /\ last[k].prev_status = STATUS_FAIL
          /\ last[k].prev_lat # None
          /\ last[k].alert = "resolved"
          /\ k \notin DOMAIN alerts
          /\ status[k] = STATUS_OK

\* C5: a poll that feeds a healthy signal to an entity whose record is
\* (OK, null) hands no alert of that entity to the sink and leaves the record
\* (OK, null).
C5_HealthyOkIdempotent ==
    [][ \A e \in DOMAIN last' :
          (last'[e].sig = STATUS_OK /\ RecOf(e) = [status |-> STATUS_OK, lat |-> None])
             => /\ RecOf(e)' = RecOf(e)
                /\ SinkOf(e)' = SinkOf(e) ]_vars

\* three healthy polls in a row from the default record
C5_Witness ==
    /\ mon = "single"
    /\ Len(hist) >= 3
    /\ \A i \in 1..Len(hist) : hist[i].sig = STATUS_OK
    /\ sink = <<>>
    /\ load_state(sfile) = [status |-> STATUS_OK, lat |-> None]

\* the cooldown the configuration gives for entity e
ConfiguredCooldown(e) ==
    CASE mon = "single" -> cooldown
      [] mon \in {"jar", "storage"} -> perCool[e]
      [] OTHER -> None

\* C7: with a configured cooldown of 0 for an entity (in monitor_jar: the value
\* of the process in jar_monitor.processes), every poll that finds the entity
\* in FAIL with an unhealthy signal sends an alert.
C7_ZeroCooldownAlwaysAlerts ==
    mon \in {"single", "jar", "storage"} =>
        \A e \in DOMAIN last :
            (ConfiguredCooldown(e) = 0
                /\ last[e].prev_status = STATUS_FAIL /\ last[e].sig = STATUS_FAIL)
            => last[e].alert # "none"

\* matches returned by the scans of a label after time t0
RECURSIVE SumSince(_, _)
SumSince(log, t0) ==
    IF log = <<>> THEN 0
    ELSE (IF log[Len(log)].t > t0 THEN log[Len(log)].n ELSE 0)
            + SumSince(SubSeq(log, 1, Len(log) - 1), t0)

\* C10: a run of the windowed aggregator that finds now - window_start >=
\* interval for a label decides STALLED (unhealthy) when the scans since
\* window_start returned 0 matches over all files and ACTIVE otherwise, and
\* leaves the window record (baseline + those matches, 0, now).
C10_WindowClose ==
    [][ (mon = "voice" /\ npolls' = npolls + 1) =>
          \A l \in Labels :
             (l \in DOMAIN counts /\ now' - counts[l].window_start >= aggCfg[l].interval)
             => LET m == SumSince(scanlog'[l], counts[l].window_start)
                IN  /\ l \in DOMAIN last'
                    /\ last'[l].sig = (IF m = 0 THEN STATUS_FAIL ELSE STATUS_OK)
                    /\ counts'[l] = [baseline |-> counts[l].baseline + m,
                                     delta |-> 0, window_start |-> now'] ]_vars

\* a window closed ACTIVE on matches that an earlier cycle of the window
\* found, the closing cycle itself finding none
C10_Witness ==
    /\ mon = "voice"
    /\ \E l \in DOMAIN last :
          /\ last[l].sig = STATUS_OK
          /\ scanlog[l][Len(scanlog[l])].n = 0
          /\ counts[l] = [baseline |-> counts[l].baseline, delta |-> 0, window_start |-> now]
          /\ counts[l].baseline > 0

\* C8: for a log that was only appended to, once a scan has read up to the end
\* of the file the counts of all scans add up to the count of one scan of the
\* whole file, and every scan returns the end of the file as new cursor.
C8_SplitScanEqualsWholeScan ==
    /\ (appendOnly /\ cursor = Len(logdata)) => total = CountIn(scanCfg, logdata)
    /\ lastScan.done => lastScan.new_offset = Len(lastScan.data)

\* C9: a scan that finds the stored offset greater than the file size reads
\* from offset 0 to the end of the file: it returns the count of the whole
\* current content and the end of the file as new cursor.
C9_TruncationRescansFromZero ==
    (lastScan.done /\ lastScan.stored > Len(lastScan.data)) =>
        /\ lastScan.from = 0
        /\ lastScan.count = CountIn(scanCfg, lastScan.data)
        /\ lastScan.new_offset = Len(lastScan.data)

\* a scan found the stored offset past the end of a shorter file that holds
\* a match
C9_Witness ==
    /\ lastScan.done
    /\ lastScan.stored > Len(lastScan.data)
    /\ lastScan.data # <<>>
    /\ lastScan.count > 0

\* C11: a run of an aggregator that finds now - window_start < interval for a
\* label (per-file aggregator: for a key) only adds the matches it scanned to
\* the delta and moves the file cursors to the end of the files: status, alert
\* time, baseline and window_start stay as they were, the label is not fed to
\* the alert logic and no alert of it reaches the sink.
C11_OpenWindowFrame ==
    [][ /\ (mon = "voice" /\ npolls' = npolls + 1) =>
            \A l \in Labels :
               (l \in DOMAIN counts /\ now' - counts[l].window_start < aggCfg[l].interval)
               => /\ counts'[l] = [counts[l] EXCEPT !.delta =
                                      @ + scanlog'[l][Len(scanlog'[l])].n]
                  /\ \A f \in Files : offs'[<<f, l>>] = Len(content'[f])
                  /\ RecOf(l)' = RecOf(l)
                  /\ (l \in DOMAIN status') = (l \in DOMAIN status)
                  /\ (l \in DOMAIN alerts') = (l \in DOMAIN alerts)
                  /\ l \notin DOMAIN last'
                  /\ SinkOf(l)' = SinkOf(l)
        /\ (mon = "app" /\ npolls' = npolls + 1) =>
            \A k \in Files \X Labels :
               (k \in DOMAIN counts /\ now' - counts[k].time < aggCfg[k[2]].interval)
               => /\ counts'[k] = counts[k]
                  /\ RecOf(k)' = RecOf(k)
                  /\ (k \in DOMAIN status') = (k \in DOMAIN status)
                  /\ (k \in DOMAIN alerts') = (k \in DOMAIN alerts)
                  /\ k \notin DOMAIN last'
                  /\ SinkOf(k)' = SinkOf(k) ]_vars

\* a run inside the window of a label in FAIL added matches to its delta
C11_Witness ==
    /\ mon = "voice"
    /\ \E l \in DOMAIN counts :
          /\ counts[l].delta > 0
          /\ counts[l].window_start < now
          /\ l \notin DOMAIN last
          /\ Get(status, l, STATUS_OK) = STATUS_FAIL

\* the outcome of the sequential run: the scans of the patterns one after
\* another on the state as loaded, then the loop over the patterns
SequentialRun ==
    voice_loop(1, [offs |-> offs, counts |-> counts, alerts |-> alerts,
                   status |-> status, scanlog |-> scanlog,
                   failed |-> <<>>, resolved |-> <<>>, last |-> NoPoll],
               [label \in Labels |-> process_pattern(label, content, offs)], pool.t)

\* C12: while workers of the pool run and return, in any order, cursors,
\* windows, statuses, alert times and the sink stay as loaded; the step that
\* merges leaves the state and sends the alerts of the scans run one after
\* another on the loaded state.
C12_PoolEqualsSequential ==
    [][ /\ (mon = "pool" /\ pool.running /\ pool'.running)
            => UNCHANGED <<offs, counts, alerts, status, sink>>
        /\ (mon = "pool" /\ pool.running /\ ~pool'.running)
            => /\ offs' = SequentialRun.offs
               /\ counts' = SequentialRun.counts
               /\ alerts' = SequentialRun.alerts
               /\ status' = SequentialRun.status
               /\ sink' = sink \o Rows(SequentialRun.failed, "detected", pool.t)
                               \o Rows(SequentialRun.resolved, "resolved", pool.t) ]_vars

\* a run whose workers returned in the reverse of the configured order was
\* merged and sent an alert
C12_Witness ==
    /\ mon = "pool"
    /\ ~pool.running
    /\ pool.order = <<"l2", "l1">>
    /\ sink # <<>>
    /\ \E k \in DOMAIN offs : offs[k] > 0

\* what the poll of the script reads from the record load_state returned:
\* state["status"] / state["last_alert_time"], in the aggregator
\* state["status"].get(key, STATUS_OK) / the key's entry of state["alerts"]
ReadsFrom(kind, value) ==
    IF kind = "voice"
    THEN IF {"status", "alerts", "counts"} \subseteq DOMAIN value
         THEN [raised |-> FALSE, status |-> Get(value["status"], "l1", STATUS_OK),
               lat |-> Get(value["alerts"], "l1", None)]
         ELSE [raised |-> TRUE, status |-> STATUS_OK, lat |-> None]
    ELSE IF Readable(value)
         THEN [raised |-> FALSE, status |-> value["status"], lat |-> value["last_alert_time"]]
         ELSE [raised |-> TRUE, status |-> STATUS_OK, lat |-> None]

\* the state file load_state found was absent, empty or no complete JSON text
Unreadable(d) == ~d.exists \/ ~json_load(d.text).ok

\* C13: a call of load_state that finds the state file absent, empty or
\* unparsable does not raise and returns the default record of its script,
\* from which the poll reads status OK and no alert time.
C13_LoadStateDefault ==
    (loaded.done /\ Unreadable(loaded.disk)) =>
        /\ ~loaded.raised
        /\ DOMAIN loaded.value = DOMAIN DefaultState(loaded.kind)
        /\ loaded.value = DefaultState(loaded.kind)
        /\ ReadsFrom(loaded.kind, loaded.value) =
              [raised |-> FALSE, status |-> STATUS_OK, lat |-> None]

\* load_state found a state file cut short inside its text
C13_Witness ==
    /\ loaded.done
    /\ loaded.disk.exists
    /\ Len(loaded.disk.text) >= 2
    /\ ~json_load(loaded.disk.text).ok
    /\ loaded.kind = "cpu"

\* C14: after a process was killed inside save_state, load_state of the same
\* file returns the complete record of before the save or the complete record
\* being saved.
C14_SaveIsAtomic ==
    (mon = "store" /\ saving.done /\ saving.killed /\ total = 0) =>
        \/ load_state_json(disk, "cpu").value = saving.prev
        \/ load_state_json(disk, "cpu").value = saving.new

\* C15: a poll whose save_state raised an I/O error leaves the poll loop
\* running.
C15_SaveErrorKeepsLoop == (mon = "store" /\ proc.ioerror) => proc.alive

\* the mail of entity e sent in the latest poll, as a set of at most one
MailNow(e) == {i \in 1..Len(outbox) : outbox[i].ent = e /\ outbox[i].t = now}

\* C16: a poll whose alert mail was not delivered (SMTP error or timeout
\* inside send_alert) still leaves the status and the last_alert_time of the
\* debouncer table on file, and the poll loop goes on.
C16_FailedDeliveryKeepsTransition ==
    mon \in {"mail", "mailvoice"} =>
        \A e \in DOMAIN last :
            (last[e].alert # "none" /\ \E i \in MailNow(e) : ~outbox[i].delivered)
            => /\ proc.alive
               /\ RecOf(e).status =
                     Table(last[e].prev_status, last[e].prev_lat, last[e].sig,
                           last[e].cd, last[e].t).status
               /\ RecOf(e).lat =
                     Table(last[e].prev_status, last[e].prev_lat, last[e].sig,
                           last[e].cd, last[e].t).lat

\* a "detected" mail timed out and the record on file is (FAIL, now)
C16_Witness ==
    /\ mon = "mail"
    /\ outbox # <<>>
    /\ outbox[Len(outbox)] = [ent |-> "srv", kind |-> "detected", t |-> now,
                              delivered |-> FALSE,
                              onfile |-> [status |-> STATUS_OK, lat |-> None]]
    /\ sfile = [exists |-> TRUE, status |-> STATUS_FAIL, lat |-> now]

\* C17: when send_alert is called for an alert, the state file already holds
\* the status and the last_alert_time that go with that alert.
C17_CommitBeforeDelivery ==
    \A i \in 1..Len(outbox) :
        outbox[i].onfile =
            [status |-> IF outbox[i].kind = "resolved" THEN STATUS_OK ELSE STATUS_FAIL,
             lat |-> IF outbox[i].kind = "resolved" THEN None ELSE outbox[i].t]

\* the latest mail about entity e, 0 when there is none
RECURSIVE LatestMail(_, _)
LatestMail(e, i) ==
    IF i = 0 THEN 0 ELSE IF outbox[i].ent = e THEN i ELSE LatestMail(e, i - 1)

\* C19: when the latest alert mail of an entity was not delivered, a later
\* poll that finds the entity still in FAIL with an unhealthy signal, the
\* cooldown elapsed since that mail, sends an alert of that entity again.
C19_RetriesAfterFailedDelivery ==
    mon \in {"mail", "mailvoice"} =>
        \A e \in DOMAIN last :
            LET i == LatestMail(e, Len(outbox))
            IN  (/\ last[e].prev_status = STATUS_FAIL
                 /\ last[e].sig = STATUS_FAIL
                 /\ i > 0)
                => ~ (/\ outbox[i].kind \in {"detected", "still failing"}
                      /\ ~outbox[i].delivered
                      /\ outbox[i].t < last[e].t
                      /\ last[e].t - outbox[i].t >= last[e].cd)

\* the delays slept so far are delay * 2^attempt for attempt = 0, 1, ...: each one
\* longer than the one before
Backoff(m, delay) ==
    /\ \A i \in 1..Len(m.slept) : m.slept[i] = delay * (2 ^ (i - 1))
    /\ \A i \in 1..(Len(m.slept) - 1) : m.slept[i] < m.slept[i + 1]

\* C18: a sender that met a delivery failure retries: it makes at most the fixed
\* number of attempts (3 by default), no attempt follows the first success, it
\* sleeps delay * 2^attempt between two consecutive failed attempts, and it gives
\* up only after the last attempt; alerts and reports alike.
C18_BoundedRetryWithBackoff ==
    (mon = "retry" /\ mailer.kind /= "none" /\ mailer.attempts > 0) =>
        LET allowed == IF mailer.kind = "report" THEN mailer.retries ELSE DefaultRetries
            delay == IF mailer.kind = "report" THEN mailer.delay ELSE DefaultDelay
        IN  /\ mailer.finished
            /\ mailer.attempts <= allowed
            /\ \A i \in 1..(mailer.attempts - 1) : mailer.results[i] /= "ok"
            /\ mailer.delivered <=> mailer.results[mailer.attempts] = "ok"
            /\ Backoff(mailer, delay)
            /\ Len(mailer.slept) =
                 (IF mailer.delivered THEN mailer.attempts - 1 ELSE allowed - 1)
            /\ ~mailer.delivered => mailer.attempts = allowed

\* the probe of the latest cycle failed or reported inactive: database unreachable,
\* no records, latest record older than the threshold, uptime unreadable
GateClosed ==
    /\ probe.done
    /\ \/ /\ probe.kind = "db"
          /\ \/ ~probe.db.up
             \/ probe.db.age = None
             \/ probe.db.age > InactivityThreshold
       \/ /\ probe.kind = "uptime"
          /\ probe.uptime = None

\* C20: in a cycle whose gating probe failed or reported inactive the monitor sent
\* no alert of any kind and the state file is as it was before the cycle, whatever
\* the status on file was.
C20_ClosedGateIsSilent ==
    (mon \in {"gate", "uptime"} /\ GateClosed) =>
        /\ sink = probe.sink
        /\ sfile = probe.file

\* a cycle was gated while the file said FAIL and the cooldown had elapsed
C20_Witness ==
    /\ mon = "gate"
    /\ GateClosed
    /\ probe.db.conf /\ probe.db.up /\ probe.db.age = 8
    /\ probe.file.exists
    /\ probe.file.status = STATUS_FAIL
    /\ now - probe.file.lat >= cooldown

\* C28: in the aggregators a window that closes STALLED for a label already in
\* FAIL is handled as the debouncer handles an unhealthy signal in FAIL: once
\* now - last_alert_time >= cooldown it sends 'still failing' and sets
\* last_alert_time = now, within the cooldown it sends nothing.
C28_StalledWindowInFail ==
    mon \in {"voice", "app"} =>
        \A e \in DOMAIN last :
            (last[e].prev_status = STATUS_FAIL /\ last[e].sig = STATUS_FAIL
                /\ last[e].prev_lat # None)
            => IF last[e].t - last[e].prev_lat >= last[e].cd
               THEN /\ last[e].alert = "still failing"
                    /\ last[e].lat = last[e].t
                    /\ \E i \in 1..Len(sink) :
                          sink[i] = [ent |-> e, kind |-> "still failing", t |-> last[e].t]
               ELSE /\ last[e].alert = "none"
                    /\ last[e].lat = last[e].prev_lat

\* the entities whose check raised in the latest cycle, and those the cycle
\* went on to check without an exception
RaisedChecks ==
    IF mon = "storage" THEN (IF npolls > 0 THEN Entities \ DOMAIN last ELSE {})
    ELSE {e \in DOMAIN last : last[e].raised}

CompletedChecks ==
    IF mon = "storage" THEN DOMAIN last
    ELSE {e \in DOMAIN last : ~last[e].raised}

\* the entities the latest cycle had to look at
CycleEntities == IF mon = "cdr" THEN DOMAIN last ELSE Entities

\* C21: a cycle in which the check of one entity raised still checked every
\* other entity, and the monitor is alive afterwards.
C21_RaisingCheckIsIsolated ==
    (mon \in {"storage", "ha", "cdr"} /\ RaisedChecks # {}) =>
        /\ proc.alive
        /\ CycleEntities \ RaisedChecks \subseteq CompletedChecks

\* C22: a cycle that found the monitor's configuration section absent leaves the
\* monitor alive, so that it polls again after the delay.
C22_MissingSectionNotFatal ==
    (mon \in {"cpu", "cfg"} /\ "srv" \in DOMAIN last /\ last["srv"].missing) => proc.alive

\* C23: every cycle that has started an external call completes: the call
\* returns, or it is cut off by its timeout and the cycle goes on.
C23_CycleCompletes == (call.pos = "calling") ~> (call.pos = "idle")

\* C29: the first scan after the file was truncated or replaced counts the
\* matches of the whole current content, starting at byte 0, whether the new
\* content is shorter or longer than the stored offset.
C29_RotationRescansFromZero ==
    (mon = "scan" /\ lastScan.done /\ lastScan.after_rotation) =>
        /\ lastScan.from = 0
        /\ lastScan.count = CountIn(scanCfg, lastScan.data)

\* the poll record of the SIP instance when its log was found
SipPoll == IF mon = "sip" /\ SipInstance \in DOMAIN last /\ ~last[SipInstance].skipped
           THEN {last[SipInstance]} ELSE {}

\* what the filter of read_new_errors finds in a whole file
SipCount(data) == Filtered(ReadLines(data, <<>>), SipMatch, SipIgnore)

\* C24: a poll that selects as active log a file other than the one recorded
\* in the state of the instance scans the new file from byte offset 0 and
\* leaves the new file recorded as the file of the instance.
C24_NewFileFromZero ==
    \A p \in SipPoll :
        (p.had /\ p.prev.file # p.active) =>
            /\ p.from = 0
            /\ mfile[SipInstance].file = p.active
            /\ p.io = "ok" => /\ p.count = SipCount(p.data)
                              /\ mfile[SipInstance].offset = Len(p.data)

\* the active log changed to a file that holds an error within the first
\* bytes, as many as the offset stored for the old file
C24_Witness ==
    \E p \in SipPoll :
        /\ p.had /\ p.prev.file # p.active /\ p.io = "ok"
        /\ p.prev.offset > 0
        /\ p.prev.offset <= Len(p.data)
        /\ p.data[1] = "a"
        /\ p.count > 0

\* the cursor stored for the file the poll scanned, before the poll
CursorBefore(p) == IF p.had /\ p.prev.file = p.active THEN p.prev.offset ELSE 0

EntRec(f, e) == IF e \in DOMAIN f THEN f[e] ELSE [status |-> STATUS_OK, lat |-> None]

\* C26: in a cycle of a monitor that tracks several entities, the record of an
\* entity after the cycle is what the alert logic makes of its record before
\* the cycle and its own signal, whatever the other entities did, and an entity
\* the cycle skipped keeps its record.
C26_EntityFrame ==
    [][ (mon \in {"jar", "storage"} /\ npolls' = npolls + 1) =>
          \A e \in Entities :
             IF e \in DOMAIN last'
             THEN LET d == Debounce(EntRec(mfile, e).status, EntRec(mfile, e).lat,
                                    last'[e].sig, last'[e].cd, now')
                  IN  /\ EntRec(mfile', e) = [status |-> d.status, lat |-> d.lat]
                      /\ (d.alert # "none") <=>
                            (\E i \in (Len(sink) + 1)..Len(sink') :
                                sink'[i] = [ent |-> e, kind |-> d.alert, t |-> now'])
             ELSE /\ EntRec(mfile', e) = EntRec(mfile, e)
                  /\ \A i \in (Len(sink) + 1)..Len(sink') : sink'[i].ent # e ]_vars

\* a mount in FAIL was skipped by the cycle in which the other mount went from
\* FAIL to OK
C26_Witness ==
    /\ mon = "storage"
    /\ npolls > 1
    /\ "e1" \notin DOMAIN last
    /\ "e2" \in DOMAIN last
    /\ last["e2"].alert = "resolved"
    /\ EntRec(mfile, "e1").status = STATUS_FAIL

\* C27: after a poll of monitor_trace the state holds an mtime entry only for
\* files that exist: the entry of a file that has disappeared is gone.
C27_SubRecordsOnlyOfExistingFiles ==
    (mon \in {"kepong", "app01"} /\ "srv" \in DOMAIN last) =>
        DOMAIN offs \subseteq last["srv"].exists

\* the alerts s of one entity continue a well-formed sequence; open says
\* whether a 'detected' is waiting for its 'resolved'
RECURSIVE WellFormedFrom(_, _)
WellFormedFrom(s, open) ==
    IF s = <<>> THEN TRUE
    ELSE CASE Head(s).kind = "detected" -> ~open /\ WellFormedFrom(Tail(s), TRUE)
           [] Head(s).kind = "still failing" -> open /\ WellFormedFrom(Tail(s), TRUE)
           [] Head(s).kind = "resolved" -> open /\ WellFormedFrom(Tail(s), FALSE)
           [] OTHER -> FALSE

\* C30: for every tracked entity the alerts handed to the sink are a repetition
\* of one 'detected', any number of 'still failing', one 'resolved': nothing
\* but 'detected' opens an episode, and no episode is opened twice.
C30_AlertsWellFormed == \A e \in Ents : WellFormedFrom(SinkOf(e), FALSE)

\* an entity went through a whole episode with a reminder and into the next
C30_Witness ==
    \E e \in Ents :
        /\ Len(SinkOf(e)) = 4
        /\ SinkOf(e)[1].kind = "detected"
        /\ SinkOf(e)[2].kind = "still failing"
        /\ SinkOf(e)[3].kind = "resolved"
        /\ SinkOf(e)[4].kind = "detected"

\* sample i of monitor_cpu was above the threshold
HighSample(i) == cpu.samples[i].usage > cpu.threshold

\* the samples i..n were all above the threshold and sample i was taken at
\* least monitor_duration seconds before sample n
SustainedSince(i, n) ==
    /\ cpu.samples[i].t <= cpu.samples[n].t - cpu.duration
    /\ \A j \in i..n : HighSample(j)

C32_ResolvedOnlyOnLowSample ==
    mon = "cpuload" =>
        \A k \in 1..Len(sink) :
            sink[k].kind = "resolved" =>
                \E i \in 1..Len(cpu.samples) :
                    cpu.samples[i].t = sink[k].t /\ ~HighSample(i)

\* matches returned by all the scans of a label merged so far
RECURSIVE SumLog(_)
SumLog(log) == IF log = <<>> THEN 0 ELSE Head(log).n + SumLog(Tail(log))

\* C33: in the parallel aggregator, after every evaluation and for every label,
\* baseline + delta of the window record equals the sum of the match counts
\* the scans of the label returned since the record was created; the first
\* evaluation puts its count into baseline with delta 0.
C33_BaselinePlusDeltaIsScanSum ==
    mon = "pool" =>
        \A l \in Labels :
            l \in DOMAIN counts =>
                counts[l].baseline + counts[l].delta = SumLog(scanlog[l])

\* a label whose record holds matches of the first evaluation, of a window
\* rolled over, and of the window still open
C33_Witness ==
    /\ mon = "pool"
    /\ ~pool.running
    /\ \E l \in Labels :
          /\ l \in DOMAIN counts
          /\ Len(scanlog[l]) >= 3
          /\ scanlog[l][1].n > 0
          /\ counts[l].baseline > scanlog[l][1].n
          /\ counts[l].delta > 0

\* what a poll of monitor_services does for service e
SvcFrame(e) ==
    LET before == get_svc_state(mfile, e)
    IN  IF last'[e].probed
        THEN /\ now' - before.last_check_time >= aggCfg[e].interval
             /\ e \in DOMAIN mfile'
             /\ mfile'[e].last_check_time = now'
        ELSE /\ (e \in DOMAIN mfile') = (e \in DOMAIN mfile)
             /\ e \in DOMAIN mfile => mfile'[e] = mfile[e]
             /\ SinkOf(e)' = SinkOf(e)

\* C34: monitor_services probes a service on a poll only if now -
\* last_check_time >= its check_interval_seconds; a probed service gets
\* last_check_time = now, a service not probed keeps its record and gets no
\* alert, so two probes of a service are at least its interval apart.
C34_ProbeRespectsInterval ==
    [][(mon = "services" /\ npolls' # npolls) => \A e \in Entities : SvcFrame(e)]_vars

\* a poll that probed one service and skipped the other, which has a record
C34_Witness ==
    /\ mon = "services"
    /\ npolls >= 2
    /\ \E e, f \in Entities :
          /\ last[e].probed /\ ~last[f].probed
          /\ f \in DOMAIN mfile /\ mfile[f].last_check_time < now
          /\ mfile[f].status = STATUS_FAIL

\* the matching, non-ignored lines the latest poll found in the log of e
SmppFound(e) ==
    IF last[e].io = "ok" THEN Filtered(smpplog[e].lines, SmppMatch, SmppIgnore) ELSE 0

\* C35: after every poll of an SMPP instance the persisted error_count is the
\* number of matching, non-ignored lines the poll found in the log, and the
\* signal is unhealthy exactly when that number is strictly greater than the
\* error_count persisted before: a dropped count is healthy and a new
\* baseline, lines present before the first poll are new errors.
C35_ErrorCountIsLinesFound ==
    [][(mon = "smpp" /\ npolls' # npolls) =>
         \A e \in Entities :
            last'[e].polled =>
               /\ mfile'[e].error_count = SmppFound(e)'
               /\ last'[e].old_count = get_inst_state(mfile, e).error_count
               /\ (last'[e].sig = STATUS_FAIL) <=> (SmppFound(e)' > last'[e].old_count)]_vars

\* a poll after a rotation found fewer lines than the baseline, and the first
\* poll of the other instance took the lines already there as new errors
C35_Witness ==
    /\ mon = "smpp"
    /\ DOMAIN last = Entities
    /\ \E e, f \in Entities :
          /\ last[e].polled /\ last[e].io = "ok"
          /\ SmppFound(e) < last[e].old_count
          /\ last[e].sig = STATUS_OK /\ mfile[e].error_count = SmppFound(e)
          /\ last[f].polled /\ last[f].old_count = 0 /\ last[f].alert = "detected"

\* C36: at most one main runner is past check_existing_instance at a time, and
\* the PID file then names it.
C36_SingleRunner ==
    mon = "runner" =>
        /\ Cardinality({p \in Runners : Past(p)}) <= 1
        /\ \A p \in Runners : Past(p) => pidfile = p

\* the live children of a script
LiveChildren(name) ==
    {c \in DOMAIN children : children[c].script = name /\ children[c].alive}

\* C37: a cycle of the main loop starts every script of monitor_scripts that
\* is not running, whether its process has exited or its start failed, and
\* there is never more than one live child per script.
C37_NotRunningIsRestarted ==
    mon = "runner" =>
        /\ "cycle" \in DOMAIN last =>
              last["cycle"].not_running \subseteq last["cycle"].attempted
        /\ \A i \in 1..Len(monitor_scripts) :
              Cardinality(LiveChildren(monitor_scripts[i])) <= 1

\* runner p ends in this step on SIGTERM or SIGINT
ExitsOnSignal(p) == runners[p].how # "signal" /\ runners'[p].how = "signal"

\* C38: when a runner ends on SIGTERM or SIGINT, whatever it was doing, stop_all
\* has sent SIGKILL to every child it started that was still alive, an error
\* for one child not stopping the loop, and the PID file is gone.
C38_StopAllKillsEveryChild ==
    [][\A p \in Runners :
          (mon = "runner" /\ ExitsOnSignal(p)) =>
              /\ pidfile' = None
              /\ \A c \in DOMAIN children :
                    children[c].parent = p =>
                        ~children'[c].alive /\ children'[c].by # "pdeathsig"]_vars

\* the sizes sampled in the first n iterations, in order
RECURSIVE Sizes(_, _)
Sizes(obs, n) ==
    IF n = 0 THEN <<>>
    ELSE IF obs[n].exists THEN Append(Sizes(obs, n - 1), obs[n].size)
    ELSE Sizes(obs, n - 1)

\* two consecutive samples are equal
HasRepeat(s) == \E j \in 1..(Len(s) - 1) : s[j] = s[j + 1]

\* ceil(timeout / 5)
CeilSteps(timeout) == (timeout + WaitStep - 1) \div WaitStep

\* C39: wait_for_complete_file ends after at most ceil(timeout / 5) size
\* samples; it returns True only if two consecutive samples of the existing
\* file had the same size, and False when the file never exists or its size
\* differs at every sample until the timeout.
C39_WaitForCompleteFile ==
    (mon = "wait" /\ "wait" \in DOMAIN last) =>
        LET w == last["wait"]
            all == Sizes(w.obs, CeilSteps(w.timeout))
        IN  /\ w.ret.samples <= CeilSteps(w.timeout)
            /\ w.ret.iterations <= CeilSteps(w.timeout)
            /\ w.ret.result = "True" => HasRepeat(Sizes(w.obs, w.ret.iterations))
            /\ (w.ret.result # "raised" /\ ~HasRepeat(all)) => w.ret.result = "False"

\* True from two equal samples with an iteration between them that found no file
C39_Witness ==
    /\ mon = "wait"
    /\ "wait" \in DOMAIN last
    /\ last["wait"].ret.result = "True"
    /\ last["wait"].ret.iterations = 3
    /\ last["wait"].ret.samples = 2

====
